---------------------------- MODULE Spec2Model ----------------------------
(***************************************************************************)
(* A model of the CPU kernels of intel-extension-for-pytorch:              *)
(*   - pixel shuffle / unshuffle (src/unnamed/part_000),                   *)
(*   - 2-d average pooling, forward and backward (AveragePool.cpp).        *)
(*                                                                         *)
(* A tensor is a record [sizes, fmt, dtype, data]: `sizes` is the logical  *)
(* shape, `fmt` the tag suggest_memory_format() returns, `data` the        *)
(* storage in physical order (1-based sequence; offset k of the code is    *)
(* data[k+1]).  Tensors are dense in their own format, so                  *)
(* x.contiguous(x.suggest_memory_format()) is x itself.                    *)
(*                                                                         *)
(* A value of a pooling tensor is a fraction <<numerator, denominator>>.    *)
(***************************************************************************)
EXTENDS Integers, Sequences, FiniteSets, TLC

VARIABLES
    self,     \* pixel shuffle: the tensor given to the first call
    factor,   \* pixel shuffle: the upscale/downscale factor of the calls
    calls,    \* pixel shuffle: the calls made so far, each with its outcome
    pool,     \* pooling entry points: the arguments of the call
    presult,  \* pooling entry points: the outcome of the call
    kcall,    \* direct kernel / dispatcher invocation: the arguments
    kresult,  \* direct kernel / dispatcher invocation: the outcome
    divTraps, \* the build: whether an integer division by zero traps
    graph,    \* graph rewriter: the computation graph and the passes run on it
    par       \* backward pooling: the chunks of the parallel loop in progress

vars == <<self, factor, calls, pool, presult, kcall, kresult, divTraps, graph, par>>

(***************************************************************************)
(* Bounds of the model.                                                    *)
(***************************************************************************)
MaxBatch == 2      \* leading (batch) extent of a shuffled tensor: 0..MaxBatch
MaxSub == 2        \* channel count = sub * F * F (+ 1), sub in 0..MaxSub
MaxSpatial == 2    \* height and width of a shuffled tensor: 0..MaxSpatial
MaxFactor == 2     \* shuffle factor: -1..MaxFactor
MaxPoolBatch == 2  \* batch extent of a pooled rank-4 tensor
MaxPoolChan == 2   \* channel count of a pooled tensor
MaxPoolSize == 2   \* height and width of a pooled tensor: 1..MaxPoolSize
MaxKernel == 3     \* kernel height and width: 1..MaxKernel
MaxStride == 2     \* stride: 1..MaxStride
MaxPad == 1        \* padding: 0..MaxPad
MaxLane == 2       \* lanes of a float vector register: 1..MaxLane
MaxList == 3       \* length of an argument list: 0..MaxList
MaxKChan == 3      \* direct kernel call: channel count 1..MaxKChan
MaxKSize == 2      \* direct kernel call: input height = width, 1..MaxKSize
MaxKKernel == 2    \* direct kernel call: kernel height and width
MaxKPad == 2       \* direct kernel call: padding 0..MaxKPad
MaxKOut == 2       \* direct kernel call: output height and width
MaxWide == 4       \* height and width of a tensor pooled in exact arithmetic: 1..MaxWide
MaxPasses == 3     \* graph rewriter: number of passes run on a graph
MaxTape == 3       \* calls on the autograd tape: 0..MaxTape
MaxChunks == 3     \* parallel region: extent of the parallel range and number of chunks
MaxParSide == 3    \* parallel region: input height and width, 2..MaxParSide
MaxParKernel == 2  \* parallel region: kernel height and width; stride 1..MaxParKernel
MaxFwdSide == 2    \* forward region: spatial extents, planes and batch 1..MaxFwdSide
MaxFwdChan == 3    \* forward region: channels of the channel-last pooling
MaxExtent == 3     \* index enumerator: extents 1..MaxExtent
MaxRank == 3       \* index enumerator: 1..MaxRank coordinates
MaxLaps == 2       \* index enumerator: flat offsets up to MaxLaps times the range

(***************************************************************************)
(* Helpers on sequences of extents.                                        *)
(***************************************************************************)
RECURSIVE Prod(_)
Prod(s) == IF s = <<>> THEN 1 ELSE Head(s) * Prod(Tail(s))

\* Tensor::size(-k)
SizeNeg(sizes, k) == sizes[Len(sizes) - k + 1]

\* sizes().begin() .. sizes().end() - 3
Leading(sizes) == SubSeq(sizes, 1, Len(sizes) - 3)

Min(a, b) == IF a < b THEN a ELSE b
Max(a, b) == IF a > b THEN a ELSE b

\* a value never written by a kernel: what at::empty leaves in a buffer
Junk == -1

NoTensor == [sizes |-> <<>>, fmt |-> "none", dtype |-> "none", data |-> <<>>]

\* at::empty(...).resize_(sizes, fmt): an uninitialised buffer
EmptyTensor(sizes, fmt, dtype) ==
    [sizes |-> sizes, fmt |-> fmt, dtype |-> dtype,
     data |-> [k \in 1..Prod(sizes) |-> Junk]]

\* a test tensor whose elements are pairwise distinct: element at physical
\* offset k holds k + 1
Labelled(sizes, fmt) ==
    [sizes |-> sizes, fmt |-> fmt, dtype |-> "Float",
     data |-> [k \in 1..Prod(sizes) |-> k]]

\* a read of physical offset `off`; an offset outside the buffer reads junk
ReadAt(data, off) ==
    IF off >= 0 /\ off < Len(data) THEN data[off + 1] ELSE Junk

\* a write of physical offset `off`
WriteAt(data, off, v) ==
    IF off >= 0 /\ off < Len(data) THEN [data EXCEPT ![off + 1] = v] ELSE data

(***************************************************************************)
(* The index enumerator, at::native::data_index_init / data_index_step     *)
(* (ATen/native/cpu/utils.h), as the kernels call it: the extents are      *)
(* listed from the slowest to the fastest varying coordinate.              *)
(***************************************************************************)
RECURSIVE DataIndexInitRec(_, _, _)
DataIndexInitRec(offset, X, k) ==
    IF k > Len(X)
    THEN [off |-> offset, idx |-> <<>>]
    ELSE LET r == DataIndexInitRec(offset, X, k + 1)
         IN  [off |-> r.off \div X[k], idx |-> <<r.off % X[k]>> \o r.idx]

data_index_init(offset, X) == DataIndexInitRec(offset, X, 1).idx

RECURSIVE DataIndexStepRec(_, _, _)
DataIndexStepRec(idx, X, k) ==
    IF k > Len(X)
    THEN [carry |-> TRUE, idx |-> idx]
    ELSE LET r == DataIndexStepRec(idx, X, k + 1)
         IN  IF r.carry
             THEN LET nx == IF r.idx[k] + 1 = X[k] THEN 0 ELSE r.idx[k] + 1
                  IN  [carry |-> nx = 0, idx |-> [r.idx EXCEPT ![k] = nx]]
             ELSE [carry |-> FALSE, idx |-> r.idx]

\* a step that advances the fastest coordinate only, without carry
data_index_step_without_carry(idx, X) ==
    [idx EXCEPT ![Len(X)] = IF idx[Len(X)] + 1 = X[Len(X)] THEN 0 ELSE idx[Len(X)] + 1]

data_index_step(idx, X) == DataIndexStepRec(idx, X, 1).idx

RECURSIVE Dot(_, _)
Dot(idx, strides) ==
    IF idx = <<>> THEN 0
    ELSE Head(idx) * Head(strides) + Dot(Tail(idx), Tail(strides))

(***************************************************************************)
(* The loop body shared by the four shuffle kernels: for i in [begin,end)  *)
(* copy src[idx . strides] to dst[i], then step the index.                 *)
(***************************************************************************)
RECURSIVE CopyLoop(_, _, _, _, _, _, _)
CopyLoop(i, end, idx, X, strides, src, dst) ==
    IF i >= end \/ Len(dst) < 0 THEN dst
    ELSE CopyLoop(i + 1, end, data_index_step(idx, X), X, strides, src,
                  WriteAt(dst, i, ReadAt(src, Dot(idx, strides))))

\* at::parallel_for(0, numel, 0, f) run as one chunk; f is not called for an
\* empty range
ParallelCopy(numel, X, strides, src, dst) ==
    IF numel <= 0 THEN dst
    ELSE CopyLoop(0, numel, data_index_init(0, X), X, strides, src, dst)

KOk(data) == [st |-> "ok", msg |-> "", data |-> data]
KErr(msg) == [st |-> "error", msg |-> msg, data |-> <<>>]
KCrash == [st |-> "crash", msg |-> "integer division by zero", data |-> <<>>]

(***************************************************************************)
(* The shuffle kernels.  `output` and `input` are tensors; the result is   *)
(* the storage of `output` after the kernel.  `trap` is the outcome the     *)
(* build gives an integer division by zero (undefined behaviour): the      *)
(* division traps, or it yields a value that no loop iteration reads.      *)
(***************************************************************************)
\* cpu_pixel_shuffle with the input strides of s1 and s2 exchanged
cpu_pixel_shuffle_strides_exchanged(output, input, upscale_factor, trap) ==
    LET channels == SizeNeg(input.sizes, 3)
        height == SizeNeg(input.sizes, 2)
        width == SizeNeg(input.sizes, 1)
        sub_channels == channels \div (upscale_factor * upscale_factor)
        numel == Prod(input.sizes)
        S == upscale_factor
    IN  IF channels * height * width = 0
        THEN IF trap THEN KCrash ELSE KOk(output.data)
        ELSE KOk(ParallelCopy(numel,
                 <<numel \div (channels * height * width), sub_channels, height, S, width, S>>,
                 <<channels * height * width, S * S * height * width, width,
                   height * width, 1, S * height * width>>,
                 input.data, output.data))

cpu_pixel_shuffle(output, input, upscale_factor, trap) ==
    LET channels == SizeNeg(input.sizes, 3)
        height == SizeNeg(input.sizes, 2)
        width == SizeNeg(input.sizes, 1)
        sub_channels == channels \div (upscale_factor * upscale_factor)
        numel == Prod(input.sizes)
        S == upscale_factor
        stride_n == channels * height * width
        stride_c == S * S * height * width
        stride_s1 == S * height * width
        stride_s2 == height * width
        stride_h == width
        stride_w == 1
    IN  IF channels * height * width = 0
        THEN IF trap THEN KCrash ELSE KOk(output.data)
        ELSE LET nbatch == numel \div (channels * height * width)
             IN  KOk(ParallelCopy(numel,
                     <<nbatch, sub_channels, height, S, width, S>>,
                     <<stride_n, stride_c, stride_h, stride_s1, stride_w, stride_s2>>,
                     input.data, output.data))

cpu_pixel_shuffle_channels_last(output, input, upscale_factor) ==
    IF Len(input.sizes) # 4
    THEN KErr("pixel shuffle with channels last format supports tensors with 4 dims")
    ELSE
    LET nbatch == input.sizes[1]
        channels == input.sizes[2]
        height == input.sizes[3]
        width == input.sizes[4]
        sub_channels == channels \div (upscale_factor * upscale_factor)
        numel == Prod(input.sizes)
        S == upscale_factor
        stride_n == height * width * channels
        stride_h == width * channels
        stride_w == channels
        stride_c == S * S
        stride_s1 == S
        stride_s2 == 1
    IN  KOk(ParallelCopy(numel,
            <<nbatch, height, S, width, S, sub_channels>>,
            <<stride_n, stride_h, stride_s1, stride_w, stride_s2, stride_c>>,
            input.data, output.data))

cpu_pixel_shuffle_backward(grad_input, grad_output, upscale_factor, trap) ==
    LET channels == SizeNeg(grad_input.sizes, 3)
        height == SizeNeg(grad_input.sizes, 2)
        width == SizeNeg(grad_input.sizes, 1)
        sub_channels == channels \div (upscale_factor * upscale_factor)
        numel == Prod(grad_input.sizes)
        S == upscale_factor
        stride_n == channels * height * width
        stride_c == height * S * width * S
        stride_h == S * width * S
        stride_s1 == width * S
        stride_w == S
        stride_s2 == 1
    IN  IF channels * height * width = 0
        THEN IF trap THEN KCrash ELSE KOk(grad_input.data)
        ELSE LET nbatch == numel \div (channels * height * width)
             IN  KOk(ParallelCopy(numel,
                     <<nbatch, sub_channels, S, S, height, width>>,
                     <<stride_n, stride_c, stride_s1, stride_s2, stride_h, stride_w>>,
                     grad_output.data, grad_input.data))

cpu_pixel_shuffle_backward_channels_last(grad_input, grad_output, upscale_factor) ==
    IF Len(grad_output.sizes) # 4
    THEN KErr("pixel shuffle with channels last format supports tensors with 4 dims")
    ELSE
    LET nbatch == grad_input.sizes[1]
        channels == grad_input.sizes[2]
        height == grad_input.sizes[3]
        width == grad_input.sizes[4]
        sub_channels == channels \div (upscale_factor * upscale_factor)
        numel == Prod(grad_input.sizes)
        S == upscale_factor
        stride_n == height * width * channels
        stride_h == S * width * S * sub_channels
        stride_s1 == width * S * sub_channels
        stride_w == S * sub_channels
        stride_s2 == sub_channels
        stride_c == 1
    IN  KOk(ParallelCopy(numel,
            <<nbatch, height, width, sub_channels, S, S>>,
            <<stride_n, stride_h, stride_w, stride_c, stride_s1, stride_s2>>,
            grad_output.data, grad_input.data))

UnsupportedFormat ==
    KErr("Unsupported memory format. Supports only ChannelsLast, Contiguous")

\* The four dispatchers: a switch on suggest_memory_format() of the tensor
\* that is read.  The result also names the kernel that ran.
Ran(name, r) == [k |-> <<name>>, r |-> r]
NotRan(r) == [k |-> <<>>, r |-> r]

\* pixel_shuffle_kernel whose default case runs the packed kernel
pixel_shuffle_kernel_packed_default(output, input, upscale_factor, trap) ==
    CASE input.fmt = "ChannelsLast" ->
            Ran("cpu_pixel_shuffle_channels_last",
                cpu_pixel_shuffle_channels_last(output, input, upscale_factor))
      [] OTHER ->
            Ran("cpu_pixel_shuffle",
                cpu_pixel_shuffle(output, input, upscale_factor, trap))

pixel_shuffle_kernel(output, input, upscale_factor, trap) ==
    CASE input.fmt = "Contiguous" ->
            Ran("cpu_pixel_shuffle",
                cpu_pixel_shuffle(output, input, upscale_factor, trap))
      [] input.fmt = "ChannelsLast" ->
            Ran("cpu_pixel_shuffle_channels_last",
                cpu_pixel_shuffle_channels_last(output, input, upscale_factor))
      [] OTHER -> NotRan(UnsupportedFormat)

pixel_shuffle_backward_kernel(grad_input, grad_output, upscale_factor, trap) ==
    CASE grad_output.fmt = "Contiguous" ->
            Ran("cpu_pixel_shuffle_backward",
                cpu_pixel_shuffle_backward(grad_input, grad_output, upscale_factor, trap))
      [] grad_output.fmt = "ChannelsLast" ->
            Ran("cpu_pixel_shuffle_backward_channels_last",
                cpu_pixel_shuffle_backward_channels_last(
                    grad_input, grad_output, upscale_factor))
      [] OTHER -> NotRan(UnsupportedFormat)

pixel_unshuffle_kernel(output, input, downscale_factor, trap) ==
    CASE input.fmt = "Contiguous" ->
            Ran("cpu_pixel_shuffle_backward",
                cpu_pixel_shuffle_backward(output, input, downscale_factor, trap))
      [] input.fmt = "ChannelsLast" ->
            Ran("cpu_pixel_shuffle_backward_channels_last",
                cpu_pixel_shuffle_backward_channels_last(
                    output, input, downscale_factor))
      [] OTHER -> NotRan(UnsupportedFormat)

pixel_unshuffle_backward_kernel(grad_input, grad_output, downscale_factor, trap) ==
    CASE grad_output.fmt = "Contiguous" ->
            Ran("cpu_pixel_shuffle",
                cpu_pixel_shuffle(grad_input, grad_output, downscale_factor, trap))
      [] grad_output.fmt = "ChannelsLast" ->
            Ran("cpu_pixel_shuffle_channels_last",
                cpu_pixel_shuffle_channels_last(
                    grad_input, grad_output, downscale_factor))
      [] OTHER -> NotRan(UnsupportedFormat)

(***************************************************************************)
(* Outcome of a call of an operator of the library:                        *)
(*   st     "ok" (a tensor is returned), "error" (TORCH_CHECK threw) or    *)
(*          "crash" (the division by zero trapped)                         *)
(*   t      the returned tensor                                            *)
(*   alloc  how many result tensors were allocated                         *)
(*   kern   the kernels that were entered                                  *)
(*   mods   the divisors of the % evaluated by the argument checks         *)
(*   ctx    what the call saved in the autograd context                    *)
(***************************************************************************)
NoCtx == [keys |-> {}, factor |-> 0, input_sizes |-> <<>>]

Fail(msg, mods) ==
    [st |-> "error", msg |-> msg, t |-> NoTensor, alloc |-> 0, kern |-> <<>>,
     mods |-> mods, ctx |-> NoCtx]

\* the tensor-allocating part of an operator: allocate `out`, run dispatcher
\* result `d` on it, return `out` holding the kernel's data
Finish(out, d) ==
    [st |-> d.r.st, msg |-> d.r.msg,
     t |-> IF d.r.st = "ok" THEN [out EXCEPT !.data = d.r.data] ELSE NoTensor,
     alloc |-> 1, kern |-> d.k, mods |-> <<>>, ctx |-> NoCtx]

pixel_shuffle_cpu(x, upscale_factor, trap) ==
    LET output_sizes ==
            Leading(x.sizes) \o
            << (SizeNeg(x.sizes, 3) \div upscale_factor) \div upscale_factor,
               SizeNeg(x.sizes, 2) * upscale_factor,
               SizeNeg(x.sizes, 1) * upscale_factor >>
        output == EmptyTensor(output_sizes, x.fmt, x.dtype)
    IN  Finish(output, pixel_shuffle_kernel(output, x, upscale_factor, trap))

pixel_shuffle_backward_cpu(grad_output, input_sizes, upscale_factor, trap) ==
    LET grad_input == EmptyTensor(input_sizes, grad_output.fmt, grad_output.dtype)
    IN  Finish(grad_input,
               pixel_shuffle_backward_kernel(grad_input, grad_output,
                                             upscale_factor, trap))

pixel_unshuffle_cpu(x, downscale_factor, trap) ==
    LET output_sizes ==
            Leading(x.sizes) \o
            << SizeNeg(x.sizes, 3) * downscale_factor * downscale_factor,
               SizeNeg(x.sizes, 2) \div downscale_factor,
               SizeNeg(x.sizes, 1) \div downscale_factor >>
        output == EmptyTensor(output_sizes, x.fmt, x.dtype)
    IN  Finish(output, pixel_unshuffle_kernel(output, x, downscale_factor, trap))

pixel_unshuffle_backward_cpu(grad_output, input_sizes, downscale_factor, trap) ==
    LET grad_input == EmptyTensor(input_sizes, grad_output.fmt, grad_output.dtype)
    IN  Finish(grad_input,
               pixel_unshuffle_backward_kernel(grad_input, grad_output,
                                               downscale_factor, trap))

\* a % b of C++ for a >= 0; b = 0 is undefined and is kept apart by the callers
CRem(a, b) == IF b > 0 THEN a % b ELSE IF b < 0 THEN a % (0 - b) ELSE 0

\* PixelShuffleOp::apply -> forward: saves the factor and the input sizes;
\* PixelShuffleOp::_forward saves nothing
PixelShuffleOp_forward(x, upscale_factor, trap) ==
    [pixel_shuffle_cpu(x, upscale_factor, trap) EXCEPT
        !.ctx = [keys |-> {"upscale_factor", "input_sizes"},
                 factor |-> upscale_factor, input_sizes |-> x.sizes]]

PixelUnshuffleOp_forward(x, downscale_factor, trap) ==
    [pixel_unshuffle_cpu(x, downscale_factor, trap) EXCEPT
        !.ctx = [keys |-> {"downscale_factor", "input_sizes"},
                 factor |-> downscale_factor, input_sizes |-> x.sizes]]

\* pixel_shuffle with the divisibility check moved before the positivity check
pixel_shuffle_div_first(x, upscale_factor, grad_enabled, trap) ==
    IF ~(Len(x.sizes) >= 3)
    THEN Fail("pixel_shuffle expects input to have at least 3 dimensions", <<>>)
    ELSE
    LET c == SizeNeg(x.sizes, 3)
        upscale_factor_squared == upscale_factor * upscale_factor
        mods == <<upscale_factor_squared>>
    IN  IF upscale_factor_squared = 0
        THEN [Fail("integer division by zero", mods) EXCEPT !.st = "crash"]
        ELSE IF ~(CRem(c, upscale_factor_squared) = 0)
        THEN Fail("pixel_shuffle expects its input's 'channel' dimension to be divisible by the square of upscale_factor", mods)
        ELSE IF ~(upscale_factor > 0)
        THEN Fail("pixel_shuffle expects a positive upscale_factor", mods)
        ELSE [pixel_shuffle_cpu(x, upscale_factor, trap) EXCEPT !.mods = mods]

\* aten::pixel_shuffle
pixel_shuffle(x, upscale_factor, grad_enabled, trap) ==
    IF ~(Len(x.sizes) >= 3)
    THEN Fail("pixel_shuffle expects input to have at least 3 dimensions", <<>>)
    ELSE IF ~(upscale_factor > 0)
    THEN Fail("pixel_shuffle expects a positive upscale_factor", <<>>)
    ELSE
    LET c == SizeNeg(x.sizes, 3)
        upscale_factor_squared == upscale_factor * upscale_factor
        mods == <<upscale_factor_squared>>
    IN  IF ~(CRem(c, upscale_factor_squared) = 0)
        THEN Fail("pixel_shuffle expects its input's 'channel' dimension to be divisible by the square of upscale_factor", mods)
        ELSE LET r == IF grad_enabled
                      THEN PixelShuffleOp_forward(x, upscale_factor, trap)
                      ELSE pixel_shuffle_cpu(x, upscale_factor, trap)
             IN  [r EXCEPT !.mods = mods]

\* aten::pixel_unshuffle
pixel_unshuffle(x, downscale_factor, grad_enabled, trap) ==
    IF ~(Len(x.sizes) >= 3)
    THEN Fail("pixel_unshuffle expects input to have at least 3 dimensions", <<>>)
    ELSE IF ~(downscale_factor > 0)
    THEN Fail("pixel_unshuffle expects a positive downscale_factor", <<>>)
    ELSE
    LET h == SizeNeg(x.sizes, 2)
        w == SizeNeg(x.sizes, 1)
    IN  IF ~(CRem(h, downscale_factor) = 0)
        THEN Fail("pixel_unshuffle expects height to be divisible by downscale_factor",
                  <<downscale_factor>>)
        ELSE IF ~(CRem(w, downscale_factor) = 0)
        THEN Fail("pixel_unshuffle expects width to be divisible by downscale_factor",
                  <<downscale_factor, downscale_factor>>)
        ELSE LET r == IF grad_enabled
                      THEN PixelUnshuffleOp_forward(x, downscale_factor, trap)
                      ELSE pixel_unshuffle_cpu(x, downscale_factor, trap)
             IN  [r EXCEPT !.mods = <<downscale_factor, downscale_factor>>]

(***************************************************************************)
(* Physical layouts.  Offset of the logical coordinate (n, c, h, w) of a   *)
(* dense tensor; a rank-3 tensor is a batch of one.                        *)
(***************************************************************************)
View4(sizes) == IF Len(sizes) = 3 THEN <<1>> \o sizes ELSE sizes

OffsetOf(fmt, sizes, n, c, h, w) ==
    LET s == View4(sizes)
    IN  IF fmt = "ChannelsLast"
        THEN ((n * s[3] + h) * s[4] + w) * s[2] + c
        ELSE ((n * s[2] + c) * s[3] + h) * s[4] + w

\* the logical coordinate stored at physical offset k
CoordsOf(fmt, sizes, k) ==
    LET s == View4(sizes)
    IN  IF fmt = "ChannelsLast"
        THEN << k \div (s[3] * s[4] * s[2]), k % s[2],
                (k \div (s[4] * s[2])) % s[3], (k \div s[2]) % s[4] >>
        ELSE << k \div (s[2] * s[3] * s[4]), (k \div (s[3] * s[4])) % s[2],
                (k \div s[4]) % s[3], k % s[4] >>

\* t.contiguous(fmt): the elements of t in the physical order of `fmt`
Contiguous(t, fmt) ==
    IF t.fmt = fmt THEN t
    ELSE [t EXCEPT !.fmt = fmt,
                   !.data = [k \in 1..Len(t.data) |->
                                LET x == CoordsOf(fmt, t.sizes, k - 1)
                                IN  t.data[OffsetOf(t.fmt, t.sizes, x[1], x[2],
                                                    x[3], x[4]) + 1]]]

\* dst.copy_(src): the storage of dst after the copy
CopyInto(dst, src) == Contiguous(src, dst.fmt).data

(***************************************************************************)
(* Arithmetic of the pooling kernels.  A value is a fraction <<n, d>> in   *)
(* lowest terms with d > 0; <<0, 0>> stands for the result of a            *)
(* floating-point division by zero (inf or NaN).  Float and Double         *)
(* arithmetic is kept exact, Long division truncates, and a narrowing to   *)
(* BFloat16 rounds to 8 significant bits.                                  *)
(***************************************************************************)
RECURSIVE Gcd(_, _)
Gcd(a, b) == IF b = 0 THEN a ELSE Gcd(b, a % b)

Abs(a) == IF a < 0 THEN 0 - a ELSE a

NotANumber == <<0, 0>>

Norm(f) ==
    IF f[2] = 0 THEN NotANumber
    ELSE LET g == Gcd(Abs(f[1]), Abs(f[2]))
             sgn == IF f[2] < 0 THEN 0 - 1 ELSE 1
         IN  << sgn * (f[1] \div g), sgn * (f[2] \div g) >>

Zero == <<0, 1>>
Num(v) == <<v, 1>>

FracAdd(a, b) ==
    IF a[2] = 0 \/ b[2] = 0 THEN NotANumber
    ELSE Norm(<< a[1] * b[2] + b[1] * a[2], a[2] * b[2] >>)

FracDiv(a, divide_factor) ==
    IF a[2] = 0 THEN NotANumber ELSE Norm(<< a[1], a[2] * divide_factor >>)

\* a / b of C++ on integers, b # 0: the quotient is truncated toward zero
TruncDiv(a, b) ==
    IF (a < 0) = (b < 0) THEN Abs(a) \div Abs(b)
    ELSE 0 - (Abs(a) \div Abs(b))

RECURSIVE Pow2(_)
Pow2(k) == IF k <= 0 THEN 1 ELSE 2 * Pow2(k - 1)

\* scale a / d by a power of two into [128, 256): <<a', d', k>> with
\* a / d = (a' / d') * 2^k
RECURSIVE ScaleBF(_, _, _)
ScaleBF(a, d, k) ==
    IF a < 128 * d THEN ScaleBF(2 * a, d, k - 1)
    ELSE IF a >= 256 * d THEN ScaleBF(a, 2 * d, k + 1)
    ELSE <<a, d, k>>

\* float -> at::BFloat16: round to nearest, ties to even, 8 significant bits
RoundBF16(f) ==
    IF f[2] = 0 \/ f[1] = 0 THEN f
    ELSE LET s == ScaleBF(Abs(f[1]), f[2], 0)
             q == s[1] \div s[2]
             r == s[1] % s[2]
             m == IF 2 * r > s[2] \/ (2 * r = s[2] /\ q % 2 = 1)
                  THEN q + 1 ELSE q
             sgn == IF f[1] < 0 THEN 0 - 1 ELSE 1
         IN  IF s[3] >= 0 THEN Num(sgn * m * Pow2(s[3]))
             ELSE Norm(<< sgn * m, Pow2(0 - s[3]) >>)

\* scalar_t(v): the narrowing of a wider value to the element type
Cast(scalar_t, v) == IF scalar_t = "BFloat16" THEN RoundBF16(v) ELSE v

\* a / divide_factor in the arithmetic of scalar_t
Divide(scalar_t, a, divide_factor) ==
    IF scalar_t = "Long"
    THEN IF divide_factor = 0 THEN NotANumber
         ELSE Num(TruncDiv(a[1], divide_factor))
    ELSE Cast(scalar_t, FracDiv(a, divide_factor))

\* a + b in the arithmetic of scalar_t
Add(scalar_t, a, b) == Cast(scalar_t, FracAdd(a, b))

\* c10::optional<int64_t>: <<>> is nullopt, <<v>> holds v
HasValue(opt) == opt # <<>>
Value(opt) == opt[1]

\* a read of physical offset `off` of a buffer of values
ValueAt(data, off) ==
    IF off >= 0 /\ off < Len(data) THEN data[off + 1] ELSE Num(Junk)

\* outcome of a pooling kernel: the storage of the result tensor, the
\* output locations for which a division was performed, and whether some
\* division had a zero divisor
PoolOk(data, divs, zdiv) ==
    [st |-> "ok", msg |-> "", data |-> data, divs |-> divs, zdiv |-> zdiv]
PoolErr(msg) ==
    [st |-> "error", msg |-> msg, data |-> <<>>, divs |-> {}, zdiv |-> FALSE]

(***************************************************************************)
(* The window of output location (oh, ow) and its divisor, as each of the  *)
(* five pooling kernels computes them.                                     *)
(***************************************************************************)
\* PoolWindow with pool_size taken from the whole kernel, not clipped to
\* the padded input
PoolWindow_whole_kernel(oh, ow, kW, kH, dW, dH, padW, padH, input_height, input_width, count_include_pad, divisor_override) ==
    LET ih0 == Max(oh * dH - padH, 0)
        iw0 == Max(ow * dW - padW, 0)
        ih1 == Min(oh * dH - padH + kH, input_height)
        iw1 == Min(ow * dW - padW + kW, input_width)
        pool_size == kH * kW
        divide_factor ==
            IF HasValue(divisor_override) THEN Value(divisor_override)
            ELSE IF count_include_pad THEN pool_size
            ELSE (ih1 - ih0) * (iw1 - iw0)
    IN  [ih0 |-> ih0, ih1 |-> ih1, iw0 |-> iw0, iw1 |-> iw1,
         pool_size |-> pool_size, divide_factor |-> divide_factor,
         empty |-> (ih0 >= ih1 \/ iw0 >= iw1)]

\* PoolWindow with pool_size taken after the clamp to the input
PoolWindow_clamp_first(oh, ow, kW, kH, dW, dH, padW, padH, input_height, input_width, count_include_pad, divisor_override) ==
    LET ih0 == Max(oh * dH - padH, 0)
        iw0 == Max(ow * dW - padW, 0)
        ih1 == Min(oh * dH - padH + kH, input_height)
        iw1 == Min(ow * dW - padW + kW, input_width)
        pool_size == (ih1 - ih0) * (iw1 - iw0)
        divide_factor ==
            IF HasValue(divisor_override) THEN Value(divisor_override)
            ELSE pool_size
    IN  [ih0 |-> ih0, ih1 |-> ih1, iw0 |-> iw0, iw1 |-> iw1,
         pool_size |-> pool_size, divide_factor |-> divide_factor,
         empty |-> (ih0 >= ih1 \/ iw0 >= iw1)]

PoolWindow(oh, ow, kW, kH, dW, dH, padW, padH, input_height, input_width, count_include_pad, divisor_override) ==
    LET ih0a == oh * dH - padH
        iw0a == ow * dW - padW
        ih1a == Min(ih0a + kH, input_height + padH)
        iw1a == Min(iw0a + kW, input_width + padW)
        pool_size == (ih1a - ih0a) * (iw1a - iw0a)
        ih0 == Max(ih0a, 0)
        iw0 == Max(iw0a, 0)
        ih1 == Min(ih1a, input_height)
        iw1 == Min(iw1a, input_width)
        divide_factor ==
            IF HasValue(divisor_override) THEN Value(divisor_override)
            ELSE IF count_include_pad THEN pool_size
            ELSE (ih1 - ih0) * (iw1 - iw0)
    IN  [ih0 |-> ih0, ih1 |-> ih1, iw0 |-> iw0, iw1 |-> iw1,
         pool_size |-> pool_size, divide_factor |-> divide_factor,
         empty |-> (ih0 >= ih1 \/ iw0 >= iw1)]

\* for ih in [ih0, ih1) for iw in [iw0, iw1): the offsets ih * rs + iw * cs,
\* in the order of the loops
RECURSIVE RowOffsets(_, _, _, _, _)
RowOffsets(ih, iw, iw1, rs, cs) ==
    IF iw >= iw1 THEN <<>>
    ELSE <<ih * rs + iw * cs>> \o RowOffsets(ih, iw + 1, iw1, rs, cs)

RECURSIVE WindowOffsets(_, _, _, _, _, _)
WindowOffsets(ih, ih1, iw0, iw1, rs, cs) ==
    IF ih >= ih1 THEN <<>>
    ELSE RowOffsets(ih, iw0, iw1, rs, cs)
         \o WindowOffsets(ih + 1, ih1, iw0, iw1, rs, cs)

\* the kernel arguments every loop body reads
PoolArgs(kW, kH, dW, dH, padW, padH, count_include_pad, divisor_override, input_height, input_width) ==
    [kW |-> kW, kH |-> kH, dW |-> dW, dH |-> dH, padW |-> padW, padH |-> padH,
     count_include_pad |-> count_include_pad,
     divisor_override |-> divisor_override,
     input_height |-> input_height, input_width |-> input_width]

WindowOf(oh, ow, a) ==
    PoolWindow(oh, ow, a.kW, a.kH, a.dW, a.dH, a.padW, a.padH,
               a.input_height, a.input_width,
               a.count_include_pad, a.divisor_override)

(***************************************************************************)
(* cpu_avg_pool<scalar_t, accscalar_t>: the packed forward kernel.         *)
(***************************************************************************)
\* sum += input_ptr[off] for the offsets of `offs`, in order (accscalar_t
\* holds the sums of the model exactly)
RECURSIVE SumAt(_, _, _, _)
SumAt(data, base, offs, sum) ==
    IF offs = <<>> THEN sum
    ELSE SumAt(data, base, Tail(offs),
               FracAdd(sum, ValueAt(data, base + Head(offs))))

\* sum / divide_factor in accscalar_t
AccDivide(scalar_t, sum, divide_factor) ==
    IF scalar_t = "Long" THEN Divide("Long", sum, divide_factor)
    ELSE FracDiv(sum, divide_factor)

RECURSIVE AvgPoolLoop(_, _, _, _, _, _, _, _)
AvgPoolLoop(scalar_t, i, end, idx, X, a, input_data, st) ==
    IF i >= end \/ Len(st.data) < 0 THEN st
    ELSE
    LET c == idx[1]
        oh == idx[2]
        ow == idx[3]
        out0 == WriteAt(st.data, i, Zero)
        input_ptr == c * a.input_height * a.input_width
        win == WindowOf(oh, ow, a)
    IN  IF win.empty
        THEN AvgPoolLoop(scalar_t, i + 1, end, data_index_step(idx, X), X, a,
                         input_data, [st EXCEPT !.data = out0])
        ELSE
        LET sum == SumAt(input_data, input_ptr,
                         WindowOffsets(win.ih0, win.ih1, win.iw0, win.iw1,
                                       a.input_width, 1), Zero)
            out1 == WriteAt(out0, i,
                            Add(scalar_t, ValueAt(out0, i),
                                Cast(scalar_t,
                                     AccDivide(scalar_t, sum,
                                               win.divide_factor))))
        IN  AvgPoolLoop(scalar_t, i + 1, end, data_index_step(idx, X), X, a,
                        input_data,
                        PoolOk(out1, st.divs \cup {i},
                               st.zdiv \/ win.divide_factor = 0))

cpu_avg_pool(scalar_t, output_, input_, kW, kH, dW, dH, padW, padH, count_include_pad, divisor_override) ==
    LET input == Contiguous(input_, "Contiguous")
        output == Contiguous(output_, "Contiguous")
        numel == Prod(output.sizes)
        ndim == Len(input.sizes)
        channels == IF ndim = 3 THEN input.sizes[1]
                    ELSE input.sizes[1] * input.sizes[2]
        input_height == SizeNeg(input.sizes, 2)
        input_width == SizeNeg(input.sizes, 1)
        output_height == SizeNeg(output.sizes, 2)
        output_width == SizeNeg(output.sizes, 1)
        X == <<channels, output_height, output_width>>
        a == PoolArgs(kW, kH, dW, dH, padW, padH, count_include_pad,
                      divisor_override, input_height, input_width)
        st0 == PoolOk(output.data, {}, FALSE)
        r == IF numel <= 0 THEN st0
             ELSE AvgPoolLoop(scalar_t, 0, numel, data_index_init(0, X), X, a,
                              input.data, st0)
    IN  [r EXCEPT !.data = CopyInto(output_, [output EXCEPT !.data = r.data])]

(***************************************************************************)
(* The channel loops of the channel-last kernels: a vector loop            *)
(* `for (d = 0; d < len; d += step)` that loads and stores the `step`      *)
(* elements d .. d + step - 1, then the scalar tail `for (; d < size; d++)`*)
(***************************************************************************)
RECURSIVE Span(_, _)
Span(d, end) == IF d >= end THEN <<>> ELSE <<d>> \o Span(d + 1, end)

\* the value of d when the vector loop exits
RECURSIVE VecExit(_, _, _)
VecExit(d, len, step) == IF d < len THEN VecExit(d + step, len, step) ELSE d

RECURSIVE VecLoop(_, _, _)
VecLoop(d, len, step) ==
    IF d < len THEN Span(d, d + step) \o VecLoop(d + step, len, step)
    ELSE <<>>

\* the channel offsets one pass touches, in order
Lanes(size, len, step) ==
    VecLoop(0, len, step) \o Span(VecExit(0, len, step), size)

\* ZeroLanes that leaves the lanes as they were
ZeroLanes_skipped(buf, p, ds) == buf

\* p[d] = 0 for the offsets d of `ds`
RECURSIVE ZeroLanes(_, _, _)
ZeroLanes(buf, p, ds) ==
    IF ds = <<>> THEN buf
    ELSE ZeroLanes(WriteAt(buf, p + Head(ds), Zero), p, Tail(ds))

\* p[d] = p[d] + in[d] for the offsets d of `ds`
RECURSIVE AddLanes(_, _, _, _, _, _)
AddLanes(scalar_t, buf, p, src, in, ds) ==
    IF ds = <<>> THEN buf
    ELSE AddLanes(scalar_t,
                  WriteAt(buf, p + Head(ds),
                          Add(scalar_t, ValueAt(buf, p + Head(ds)),
                              ValueAt(src, in + Head(ds)))),
                  p, src, in, Tail(ds))

\* for every window element: in = input_data + nbase + off; add the lanes
RECURSIVE AccumulateWindow(_, _, _, _, _, _, _)
AccumulateWindow(scalar_t, buf, p, src, nbase, offs, ds) ==
    IF offs = <<>> THEN buf
    ELSE AccumulateWindow(scalar_t,
                          AddLanes(scalar_t, buf, p, src, nbase + Head(offs), ds),
                          p, src, nbase, Tail(offs), ds)

\* DivideLanes that stores the sums undivided
RECURSIVE DivideLanes_undivided(_, _, _, _, _, _, _)
DivideLanes_undivided(scalar_t, dst, q, src, p, divide_factor, ds) ==
    IF ds = <<>> THEN dst
    ELSE DivideLanes_undivided(scalar_t,
                               WriteAt(dst, q + Head(ds), ValueAt(src, p + Head(ds))),
                               q, src, p, divide_factor, Tail(ds))

\* dst[q + d] = src[p + d] / divide_factor for the offsets d of `ds`
RECURSIVE DivideLanes(_, _, _, _, _, _, _)
DivideLanes(scalar_t, dst, q, src, p, divide_factor, ds) ==
    IF ds = <<>> THEN dst
    ELSE DivideLanes(scalar_t,
                     WriteAt(dst, q + Head(ds),
                             Divide(scalar_t, ValueAt(src, p + Head(ds)),
                                    divide_factor)),
                     q, src, p, divide_factor, Tail(ds))

RestrideRank == "required rank 4 tensor to use channels_last format"

ChannelsLastRank ==
    "average pooling with channels last format supports tensors with 4 dims"

(***************************************************************************)
(* cpu_avg_pool_channels_last<scalar_t>: the output lane is the            *)
(* accumulator.  vec_size is Vec::size().                                  *)
(***************************************************************************)
RECURSIVE AvgPoolCLLoop(_, _, _, _, _, _, _, _, _, _)
AvgPoolCLLoop(scalar_t, i, end, idx, X, a, channels, vec_size, input_data, st) ==
    IF i >= end \/ Len(st.data) < 0 THEN st
    ELSE
    LET n == idx[1]
        oh == idx[2]
        ow == idx[3]
        size == channels
        len == size - (size % vec_size)
        win == WindowOf(oh, ow, a)
        out == i * channels
        ds == Lanes(size, len, vec_size)
        pass1 == ZeroLanes(st.data, out, ds)
    IN  IF win.empty
        THEN AvgPoolCLLoop(scalar_t, i + 1, end, data_index_step(idx, X), X, a,
                           channels, vec_size, input_data,
                           [st EXCEPT !.data = pass1])
        ELSE
        LET pass2 == AccumulateWindow(
                         scalar_t, pass1, out, input_data,
                         n * a.input_height * a.input_width * channels,
                         WindowOffsets(win.ih0, win.ih1, win.iw0, win.iw1,
                                       a.input_width * channels, channels),
                         ds)
            pass3 == DivideLanes(scalar_t, pass2, out, pass2, out,
                                 win.divide_factor, ds)
        IN  AvgPoolCLLoop(scalar_t, i + 1, end, data_index_step(idx, X), X, a,
                          channels, vec_size, input_data,
                          PoolOk(pass3, st.divs \cup {i},
                                 st.zdiv \/ win.divide_factor = 0))

cpu_avg_pool_channels_last(scalar_t, output_, input_, kW, kH, dW, dH, padW, padH, count_include_pad, divisor_override, vec_size) ==
    IF Len(input_.sizes) # 4 THEN PoolErr(ChannelsLastRank)
    ELSE IF Len(output_.sizes) # 4 THEN PoolErr(RestrideRank)
    ELSE
    LET input == Contiguous(input_, "ChannelsLast")
        output == Contiguous(output_, "ChannelsLast")
        nbatch == input.sizes[1]
        channels == input.sizes[2]
        input_height == input.sizes[3]
        input_width == input.sizes[4]
        output_height == output.sizes[3]
        output_width == output.sizes[4]
        X == <<nbatch, output_height, output_width>>
        a == PoolArgs(kW, kH, dW, dH, padW, padH, count_include_pad,
                      divisor_override, input_height, input_width)
        st0 == PoolOk(output.data, {}, FALSE)
        r == IF nbatch * output_height * output_width <= 0 THEN st0
             ELSE AvgPoolCLLoop(scalar_t, 0,
                                nbatch * output_height * output_width,
                                data_index_init(0, X), X, a, channels, vec_size,
                                input.data, st0)
    IN  [r EXCEPT !.data = CopyInto(output_, [output EXCEPT !.data = r.data])]

(***************************************************************************)
(* cpu_avg_pool_channels_last<at::BFloat16>: the sums are kept in a float  *)
(* scratch buffer `sum` of `channels` elements, allocated once per chunk   *)
(* and not initialised.  fvec_size is fVec::size(), bvec_size bVec::size().*)
(***************************************************************************)
\* ZeroOut that leaves the buffer as it was
ZeroOut_skipped(buf, out, size) == buf

\* out[k] = 0 for k in [0, size)
ZeroOut(buf, out, size) == ZeroLanes(buf, out, Span(0, size))

RECURSIVE AvgPoolBF16Loop(_, _, _, _, _, _, _, _, _, _, _)
AvgPoolBF16Loop(i, end, idx, X, a, channels, fvec_size, bvec_size, input_data, sum, st) ==
    IF i >= end \/ Len(st.data) < 0 THEN st
    ELSE
    LET n == idx[1]
        oh == idx[2]
        ow == idx[3]
        size == channels
        win == WindowOf(oh, ow, a)
        out == i * channels
        sum1 == ZeroLanes(sum, 0,
                          Lanes(size, size - (size % fvec_size), fvec_size))
        bds == Lanes(size, size - (size % bvec_size), bvec_size)
    IN  IF win.empty
        THEN AvgPoolBF16Loop(i + 1, end, data_index_step(idx, X), X, a,
                             channels, fvec_size, bvec_size, input_data, sum1,
                             [st EXCEPT !.data = ZeroOut(st.data, out, size)])
        ELSE
        LET sum2 == AccumulateWindow(
                        "Float", sum1, 0, input_data,
                        n * a.input_height * a.input_width * channels,
                        WindowOffsets(win.ih0, win.ih1, win.iw0, win.iw1,
                                      a.input_width * channels, channels),
                        bds)
            pass3 == DivideLanes("BFloat16", st.data, out, sum2, 0,
                                 win.divide_factor, bds)
        IN  AvgPoolBF16Loop(i + 1, end, data_index_step(idx, X), X, a,
                            channels, fvec_size, bvec_size, input_data, sum2,
                            PoolOk(pass3, st.divs \cup {i},
                                   st.zdiv \/ win.divide_factor = 0))

cpu_avg_pool_channels_last_BFloat16(output_, input_, kW, kH, dW, dH, padW, padH, count_include_pad, divisor_override, fvec_size) ==
    IF Len(input_.sizes) # 4 THEN PoolErr(ChannelsLastRank)
    ELSE IF Len(output_.sizes) # 4 THEN PoolErr(RestrideRank)
    ELSE
    LET input == Contiguous(input_, "ChannelsLast")
        output == Contiguous(output_, "ChannelsLast")
        nbatch == input.sizes[1]
        channels == input.sizes[2]
        input_height == input.sizes[3]
        input_width == input.sizes[4]
        output_height == output.sizes[3]
        output_width == output.sizes[4]
        X == <<nbatch, output_height, output_width>>
        a == PoolArgs(kW, kH, dW, dH, padW, padH, count_include_pad,
                      divisor_override, input_height, input_width)
        sum == [k \in 1..channels |-> Num(Junk)]
        st0 == PoolOk(output.data, {}, FALSE)
        r == IF nbatch * output_height * output_width <= 0 THEN st0
             ELSE AvgPoolBF16Loop(0, nbatch * output_height * output_width,
                                  data_index_init(0, X), X, a, channels,
                                  fvec_size, 2 * fvec_size, input.data, sum,
                                  st0)
    IN  [r EXCEPT !.data = CopyInto(output_, [output EXCEPT !.data = r.data])]

(***************************************************************************)
(* cpu_avg_pool_backward<scalar_t>: the packed backward kernel.            *)
(***************************************************************************)
\* ScatterAdd that stops one position before the end of the window
RECURSIVE ScatterAdd_short(_, _, _, _, _)
ScatterAdd_short(scalar_t, buf, p, offs, grad_delta) ==
    IF Len(offs) <= 1 THEN buf
    ELSE ScatterAdd_short(scalar_t,
                          WriteAt(buf, p + Head(offs),
                                  Add(scalar_t, ValueAt(buf, p + Head(offs)),
                                      grad_delta)),
                          p, Tail(offs), grad_delta)

\* ScatterAdd that stores grad_delta instead of adding it
RECURSIVE ScatterAdd_store(_, _, _, _, _)
ScatterAdd_store(scalar_t, buf, p, offs, grad_delta) ==
    IF offs = <<>> THEN buf
    ELSE ScatterAdd_store(scalar_t, WriteAt(buf, p + Head(offs), grad_delta),
                          p, Tail(offs), grad_delta)

\* p[off] += grad_delta for the offsets of `offs`
RECURSIVE ScatterAdd(_, _, _, _, _)
ScatterAdd(scalar_t, buf, p, offs, grad_delta) ==
    IF offs = <<>> THEN buf
    ELSE ScatterAdd(scalar_t,
                    WriteAt(buf, p + Head(offs),
                            Add(scalar_t, ValueAt(buf, p + Head(offs)),
                                grad_delta)),
                    p, Tail(offs), grad_delta)

\* the loops over c, oh and ow; j numbers their iterations
RECURSIVE AvgPoolBackwardLoop(_, _, _, _, _, _, _, _)
AvgPoolBackwardLoop(scalar_t, j, end, a, output_height, output_width, grad_output_data, st) ==
    IF j >= end \/ Len(st.data) < 0 THEN st
    ELSE
    LET c == j \div (output_height * output_width)
        oh == (j \div output_width) % output_height
        ow == j % output_width
        grad_input_ptr == c * a.input_height * a.input_width
        grad_output_ptr == c * output_height * output_width
        win == WindowOf(oh, ow, a)
        grad_delta == Divide(scalar_t,
                             ValueAt(grad_output_data,
                                     grad_output_ptr + oh * output_width + ow),
                             win.divide_factor)
    IN  AvgPoolBackwardLoop(
            scalar_t, j + 1, end, a, output_height, output_width,
            grad_output_data,
            PoolOk(ScatterAdd(scalar_t, st.data, grad_input_ptr,
                              WindowOffsets(win.ih0, win.ih1, win.iw0, win.iw1,
                                            a.input_width, 1),
                              grad_delta),
                   st.divs \cup {j}, st.zdiv \/ win.divide_factor = 0))

cpu_avg_pool_backward(scalar_t, grad_input_, grad_output_, kW, kH, dW, dH, padW, padH, count_include_pad, divisor_override) ==
    LET grad_output == Contiguous(grad_output_, "Contiguous")
        grad_input == Contiguous(grad_input_, "Contiguous")
        ndim == Len(grad_output.sizes)
        channels == IF ndim = 3 THEN grad_output.sizes[1]
                    ELSE grad_output.sizes[1] * grad_output.sizes[2]
        input_height == SizeNeg(grad_input.sizes, 2)
        input_width == SizeNeg(grad_input.sizes, 1)
        output_height == SizeNeg(grad_output.sizes, 2)
        output_width == SizeNeg(grad_output.sizes, 1)
        a == PoolArgs(kW, kH, dW, dH, padW, padH, count_include_pad,
                      divisor_override, input_height, input_width)
        r == AvgPoolBackwardLoop(scalar_t, 0,
                                 channels * output_height * output_width, a,
                                 output_height, output_width, grad_output.data,
                                 PoolOk(grad_input.data, {}, FALSE))
    IN  [r EXCEPT !.data = CopyInto(grad_input_,
                                    [grad_input EXCEPT !.data = r.data])]

(***************************************************************************)
(* cpu_avg_pool_backward_channels_last<scalar_t>.  The tensors are made    *)
(* channel-last by the host library, which refuses a rank other than 4.    *)
(***************************************************************************)
\* gin[d] += gout[d] / divide_factor for the offsets d of `ds`
RECURSIVE AddQuotientLanes(_, _, _, _, _, _, _)
AddQuotientLanes(scalar_t, buf, gin, src, gout, divide_factor, ds) ==
    IF ds = <<>> THEN buf
    ELSE AddQuotientLanes(
             scalar_t,
             WriteAt(buf, gin + Head(ds),
                     Add(scalar_t, ValueAt(buf, gin + Head(ds)),
                         Divide(scalar_t, ValueAt(src, gout + Head(ds)),
                                divide_factor))),
             gin, src, gout, divide_factor, Tail(ds))

RECURSIVE ScatterWindow(_, _, _, _, _, _, _, _)
ScatterWindow(scalar_t, buf, p, offs, src, gout, divide_factor, ds) ==
    IF offs = <<>> THEN buf
    ELSE ScatterWindow(scalar_t,
                       AddQuotientLanes(scalar_t, buf, p + Head(offs), src,
                                        gout, divide_factor, ds),
                       p, Tail(offs), src, gout, divide_factor, ds)

RECURSIVE AvgPoolBackwardCLLoop(_, _, _, _, _, _, _, _, _, _)
AvgPoolBackwardCLLoop(scalar_t, j, end, a, channels, output_height, output_width, vec_size, grad_output_data, st) ==
    IF j >= end \/ Len(st.data) < 0 THEN st
    ELSE
    LET n == j \div (output_height * output_width)
        oh == (j \div output_width) % output_height
        ow == j % output_width
        grad_input_ptr == n * a.input_height * a.input_width * channels
        grad_output_ptr == n * output_height * output_width * channels
        win == WindowOf(oh, ow, a)
        gout == grad_output_ptr + oh * output_width * channels + ow * channels
        size == channels
        len == size - (size % vec_size)
        offs == WindowOffsets(win.ih0, win.ih1, win.iw0, win.iw1,
                              a.input_width * channels, channels)
    IN  AvgPoolBackwardCLLoop(
            scalar_t, j + 1, end, a, channels, output_height, output_width,
            vec_size, grad_output_data,
            PoolOk(ScatterWindow(scalar_t, st.data, grad_input_ptr, offs,
                                 grad_output_data, gout, win.divide_factor,
                                 Lanes(size, len, vec_size)),
                   IF offs = <<>> \/ size <= 0 THEN st.divs
                   ELSE st.divs \cup {j},
                   st.zdiv \/ (offs # <<>> /\ size > 0
                               /\ win.divide_factor = 0)))

cpu_avg_pool_backward_channels_last(scalar_t, grad_input_, grad_output_, kW, kH, dW, dH, padW, padH, count_include_pad, divisor_override, vec_size) ==
    IF Len(grad_input_.sizes) # 4 \/ Len(grad_output_.sizes) # 4
    THEN PoolErr(RestrideRank)
    ELSE
    LET grad_input == Contiguous(grad_input_, "ChannelsLast")
        grad_output == Contiguous(grad_output_, "ChannelsLast")
        nbatch == grad_input.sizes[1]
        channels == grad_input.sizes[2]
        input_height == grad_input.sizes[3]
        input_width == grad_input.sizes[4]
        output_height == grad_output.sizes[3]
        output_width == grad_output.sizes[4]
        a == PoolArgs(kW, kH, dW, dH, padW, padH, count_include_pad,
                      divisor_override, input_height, input_width)
        r == AvgPoolBackwardCLLoop(scalar_t, 0,
                                   nbatch * output_height * output_width, a,
                                   channels, output_height, output_width,
                                   vec_size, grad_output.data,
                                   PoolOk(grad_input.data, {}, FALSE))
    IN  [r EXCEPT !.data = CopyInto(grad_input_,
                                    [grad_input EXCEPT !.data = r.data])]

(***************************************************************************)
(* The pooling dispatchers: a switch on suggest_memory_format(), then      *)
(* AT_DISPATCH_FLOATING_TYPES_AND2(Long, BFloat16, ...) on the element     *)
(* type.  fvec_size is Vectorized<float>::size() of the build.             *)
(***************************************************************************)
Dispatched == {"Double", "Float", "Long", "BFloat16"}

NotImplemented == PoolErr("not implemented for this element type")

UnsupportedPoolFormat ==
    PoolErr("Unsupported memory format. Supports only ChannelsLast, Contiguous")

\* Vectorized<scalar_t>::size(): the lanes of one vector register
VecSize(scalar_t, fvec_size) ==
    CASE scalar_t = "BFloat16" -> 2 * fvec_size
      [] scalar_t \in {"Double", "Long"} -> Max(1, fvec_size \div 2)
      [] OTHER -> fvec_size

\* an integer division by zero inside a kernel is undefined: it traps, or
\* the kernel goes on with a value the model marks NotANumber
Undefined(scalar_t, r, trap) ==
    IF r.st = "ok" /\ r.zdiv /\ scalar_t = "Long" /\ trap
    THEN [PoolErr("integer division by zero") EXCEPT !.st = "crash"]
    ELSE r

avg_pool2d_kernel_impl(output, input, kW, kH, dW, dH, padW, padH, count_include_pad, divisor_override, fvec_size, trap) ==
    CASE input.fmt = "Contiguous" ->
            IF input.dtype \notin Dispatched THEN NotRan(NotImplemented)
            ELSE Ran("cpu_avg_pool",
                     Undefined(input.dtype,
                               cpu_avg_pool(input.dtype, output, input,
                                            kW, kH, dW, dH, padW, padH,
                                            count_include_pad,
                                            divisor_override),
                               trap))
      [] input.fmt = "ChannelsLast" ->
            IF input.dtype \notin Dispatched THEN NotRan(NotImplemented)
            ELSE IF input.dtype = "BFloat16"
            THEN Ran("cpu_avg_pool_channels_last<BFloat16>",
                     cpu_avg_pool_channels_last_BFloat16(
                         output, input, kW, kH, dW, dH, padW, padH,
                         count_include_pad, divisor_override, fvec_size))
            ELSE Ran("cpu_avg_pool_channels_last",
                     Undefined(input.dtype,
                               cpu_avg_pool_channels_last(
                                   input.dtype, output, input,
                                   kW, kH, dW, dH, padW, padH,
                                   count_include_pad, divisor_override,
                                   VecSize(input.dtype, fvec_size)),
                               trap))
      [] OTHER -> NotRan(UnsupportedPoolFormat)

avg_pool2d_backward_kernel_impl(grad_input, grad_output, kW, kH, dW, dH, padW, padH, count_include_pad, divisor_override, fvec_size, trap) ==
    CASE grad_output.fmt = "Contiguous" ->
            IF grad_output.dtype \notin Dispatched THEN NotRan(NotImplemented)
            ELSE Ran("cpu_avg_pool_backward",
                     Undefined(grad_output.dtype,
                               cpu_avg_pool_backward(
                                   grad_output.dtype, grad_input, grad_output,
                                   kW, kH, dW, dH, padW, padH,
                                   count_include_pad, divisor_override),
                               trap))
      [] grad_output.fmt = "ChannelsLast" ->
            IF grad_output.dtype \notin Dispatched THEN NotRan(NotImplemented)
            ELSE Ran("cpu_avg_pool_backward_channels_last",
                     Undefined(grad_output.dtype,
                               cpu_avg_pool_backward_channels_last(
                                   grad_output.dtype, grad_input, grad_output,
                                   kW, kH, dW, dH, padW, padH,
                                   count_include_pad, divisor_override,
                                   VecSize(grad_output.dtype, fvec_size)),
                               trap))
      [] OTHER -> NotRan(UnsupportedPoolFormat)

(***************************************************************************)
(* Shape functions of the host library (ATen/native/Pool.h).               *)
(***************************************************************************)
\* div_rtn: the quotient rounded toward negative infinity (y > 0)
div_rtn(x, y) == x \div y

\* the output size without the correction of the ceiling mode (the last
\* window may then start beyond the input and its leading padding)
pooling_output_shape_uncorrected(inputSize, kernelSize, pad, stride, dilation, ceil_mode) ==
    div_rtn(inputSize + 2 * pad - dilation * (kernelSize - 1) - 1
            + (IF ceil_mode THEN stride - 1 ELSE 0), stride) + 1

pooling_output_shape(inputSize, kernelSize, pad, stride, dilation, ceil_mode) ==
    LET outputSize ==
            div_rtn(inputSize + 2 * pad - dilation * (kernelSize - 1) - 1
                    + (IF ceil_mode THEN stride - 1 ELSE 0), stride) + 1
    IN  IF ceil_mode /\ (outputSize - 1) * stride >= inputSize + pad
        THEN outputSize - 1 ELSE outputSize

\* the message of the first check that fails, "" when all pass
pool2d_shape_check(input, kH, kW, dH, dW, padH, padW, dilationH, dilationW, nInputPlane, inputHeight, inputWidth, outputHeight, outputWidth, memory_format) ==
    LET ndim == Len(input.sizes)
        valid_dims == input.sizes[2] # 0 /\ input.sizes[3] # 0
    IN  IF ~(kW > 0 /\ kH > 0)
        THEN "kernel size should be greater than zero"
        ELSE IF ~(dW > 0 /\ dH > 0)
        THEN "stride should be greater than zero"
        ELSE IF ~(dilationH > 0 /\ dilationW > 0)
        THEN "dilation should be greater than zero"
        ELSE IF memory_format = "ChannelsLast"
                /\ ~(ndim = 4 /\ valid_dims /\ input.sizes[4] # 0)
        THEN "Expected 4D (batch mode) tensor for channels_last layout"
        ELSE IF memory_format # "ChannelsLast"
                /\ ~(\/ (ndim = 3 /\ input.sizes[1] # 0 /\ valid_dims)
                     \/ (ndim = 4 /\ valid_dims /\ input.sizes[4] # 0))
        THEN "Expected 3D or 4D (batch mode) tensor"
        ELSE IF ~(kW \div 2 >= padW /\ kH \div 2 >= padH)
        THEN "pad should be smaller than or equal to half of kernel size"
        ELSE IF ~(outputWidth >= 1 /\ outputHeight >= 1)
        THEN "Output size is too small"
        ELSE ""

\* check_dim_size(gradOutput, ndim, dim, size) for the three trailing dims
avg_pool2d_backward_shape_check(input, gradOutput, nbatch, kH, kW, dH, dW, padH, padW, nInputPlane, inputHeight, inputWidth, outputHeight, outputWidth, memory_format) ==
    LET m == pool2d_shape_check(input, kH, kW, dH, dW, padH, padW, 1, 1,
                                nInputPlane, inputHeight, inputWidth,
                                outputHeight, outputWidth, memory_format)
        ndim == Len(input.sizes)
    IN  IF m # "" THEN m
        ELSE IF \/ Len(gradOutput.sizes) # ndim
                \/ SizeNeg(gradOutput.sizes, 3) # nInputPlane
                \/ SizeNeg(gradOutput.sizes, 2) # outputHeight
                \/ SizeNeg(gradOutput.sizes, 1) # outputWidth
        THEN "Expected a gradOutput of the output's size"
        ELSE ""

(***************************************************************************)
(* Outcome of a call of a pooling operator:                                *)
(*   st     "ok" (a tensor is returned), "error" (TORCH_CHECK threw) or    *)
(*          "crash"                                                        *)
(*   t      the returned tensor                                            *)
(*   alloc  how many result tensors were allocated                         *)
(*   kern   the kernels that were entered                                  *)
(*   divs   the output locations for which the kernel divided              *)
(*   zdiv   whether the kernel divided by zero                             *)
(***************************************************************************)
PoolFail(msg, alloc) ==
    [st |-> "error", msg |-> msg, t |-> NoTensor, alloc |-> alloc,
     kern |-> <<>>, divs |-> {}, zdiv |-> FALSE]

PoolFinish(out, d) ==
    [st |-> d.r.st, msg |-> d.r.msg,
     t |-> IF d.r.st = "ok" THEN [out EXCEPT !.data = d.r.data] ELSE NoTensor,
     alloc |-> 1, kern |-> d.k, divs |-> d.r.divs, zdiv |-> d.r.zdiv]

\* at::empty(...).zero_()
ZeroTensor(sizes, fmt, dtype) ==
    [sizes |-> sizes, fmt |-> fmt, dtype |-> dtype,
     data |-> [k \in 1..Prod(sizes) |-> Zero]]

\* at::empty(...) of a pooling tensor
EmptyPoolTensor(sizes, fmt, dtype) ==
    [sizes |-> sizes, fmt |-> fmt, dtype |-> dtype,
     data |-> [k \in 1..Prod(sizes) |-> Num(Junk)]]

KernelSizeLength ==
    "avg_pool2d: kernel_size must either be a single int, or a tuple of two ints"
StrideLength ==
    "avg_pool2d: stride must either be omitted, a single int, or a tuple of two ints"
PaddingLength ==
    "avg_pool2d: padding must either be a single int, or a tuple of two ints"
DivisorZero == "divisor must be not zero"
StrideZero == "stride should not be zero"
DtypeMismatch == "expected dtype of input for gradOutput"
RankTooSmall == "Dimension out of range"

\* PoolArgumentError with a stride check that lets a longer list through
PoolArgumentError_long_stride(kernel_size, stride, padding, divisor_override) ==
    IF ~(Len(kernel_size) = 1 \/ Len(kernel_size) = 2)
    THEN KernelSizeLength
    ELSE IF ~(Len(padding) = 1 \/ Len(padding) = 2)
    THEN PaddingLength
    ELSE IF ~(~HasValue(divisor_override) \/ Value(divisor_override) # 0)
    THEN DivisorZero
    ELSE ""

\* PoolArgumentError without the check of the divisor
PoolArgumentError_any_divisor(kernel_size, stride, padding, divisor_override) ==
    IF ~(Len(kernel_size) = 1 \/ Len(kernel_size) = 2)
    THEN KernelSizeLength
    ELSE IF ~(stride = <<>> \/ Len(stride) = 1 \/ Len(stride) = 2)
    THEN StrideLength
    ELSE IF ~(Len(padding) = 1 \/ Len(padding) = 2)
    THEN PaddingLength
    ELSE ""

\* the TORCH_CHECKs on the argument lists and on the divisor, in the order
\* of the code: the message of the first that fails, "" when all pass
PoolArgumentError(kernel_size, stride, padding, divisor_override) ==
    IF ~(Len(kernel_size) = 1 \/ Len(kernel_size) = 2)
    THEN KernelSizeLength
    ELSE IF ~(stride = <<>> \/ Len(stride) = 1 \/ Len(stride) = 2)
    THEN StrideLength
    ELSE IF ~(Len(padding) = 1 \/ Len(padding) = 2)
    THEN PaddingLength
    ELSE IF ~(~HasValue(divisor_override) \/ Value(divisor_override) # 0)
    THEN DivisorZero
    ELSE ""

avg_pool2d_out_cpu(input, kernel_size, stride, padding, ceil_mode, count_include_pad, divisor_override, fvec_size, trap) ==
    IF PoolArgumentError(kernel_size, stride, padding, divisor_override) # ""
    THEN PoolFail(PoolArgumentError(kernel_size, stride, padding,
                                    divisor_override), 0)
    ELSE IF Len(input.sizes) < 3 THEN PoolFail(RankTooSmall, 0)
    ELSE
    LET kH == kernel_size[1]
        kW == IF Len(kernel_size) = 1 THEN kH ELSE kernel_size[2]
        dH == IF stride = <<>> THEN kH ELSE stride[1]
        dW == IF stride = <<>> THEN kW
              ELSE IF Len(stride) = 1 THEN dH ELSE stride[2]
        padH == padding[1]
        padW == IF Len(padding) = 1 THEN padH ELSE padding[2]
        nbatch == IF Len(input.sizes) = 4 THEN SizeNeg(input.sizes, 4) ELSE 1
        nInputPlane == SizeNeg(input.sizes, 3)
        inputHeight == SizeNeg(input.sizes, 2)
        inputWidth == SizeNeg(input.sizes, 1)
    IN  IF dH = 0 \/ dW = 0 THEN PoolFail(StrideZero, 0)
        ELSE
        LET outputHeight ==
                pooling_output_shape(inputHeight, kH, padH, dH, 1, ceil_mode)
            outputWidth ==
                pooling_output_shape(inputWidth, kW, padW, dW, 1, ceil_mode)
            memory_format == input.fmt
            m == pool2d_shape_check(input, kH, kW, dH, dW, padH, padW, 1, 1,
                                    nInputPlane, inputHeight, inputWidth,
                                    outputHeight, outputWidth, memory_format)
            output ==
                IF Len(input.sizes) = 3
                THEN EmptyPoolTensor(<<nInputPlane, outputHeight, outputWidth>>,
                                     "Contiguous", input.dtype)
                ELSE EmptyPoolTensor(
                         <<nbatch, nInputPlane, outputHeight, outputWidth>>,
                         memory_format, input.dtype)
        IN  IF m # "" THEN PoolFail(m, 0)
            ELSE PoolFinish(output,
                            avg_pool2d_kernel_impl(
                                output, input, kW, kH, dW, dH, padW, padH,
                                count_include_pad, divisor_override,
                                fvec_size, trap))

avg_pool2d_backward_out_cpu(gradOutput, input, kernel_size, stride, padding, ceil_mode, count_include_pad, divisor_override, fvec_size, trap) ==
    IF PoolArgumentError(kernel_size, stride, padding, divisor_override) # ""
    THEN PoolFail(PoolArgumentError(kernel_size, stride, padding,
                                    divisor_override), 0)
    ELSE IF Len(input.sizes) < 3 THEN PoolFail(RankTooSmall, 0)
    ELSE
    LET kH == kernel_size[1]
        kW == IF Len(kernel_size) = 1 THEN kH ELSE kernel_size[2]
        dH == IF stride = <<>> THEN kH ELSE stride[1]
        dW == IF stride = <<>> THEN kW
              ELSE IF Len(stride) = 1 THEN dH ELSE stride[2]
        padH == padding[1]
        padW == IF Len(padding) = 1 THEN padH ELSE padding[2]
        nbatch == IF Len(input.sizes) = 4 THEN SizeNeg(input.sizes, 4) ELSE 1
        nInputPlane == SizeNeg(input.sizes, 3)
        inputHeight == SizeNeg(input.sizes, 2)
        inputWidth == SizeNeg(input.sizes, 1)
    IN  IF dH = 0 \/ dW = 0 THEN PoolFail(StrideZero, 0)
        ELSE
        LET outputWidth ==
                pooling_output_shape(inputWidth, kW, padW, dW, 1, ceil_mode)
            outputHeight ==
                pooling_output_shape(inputHeight, kH, padH, dH, 1, ceil_mode)
            memory_format == input.fmt
            m == avg_pool2d_backward_shape_check(
                     input, gradOutput, nbatch, kH, kW, dH, dW, padH, padW,
                     nInputPlane, inputHeight, inputWidth, outputHeight,
                     outputWidth, memory_format)
            gradInput == ZeroTensor(input.sizes, memory_format, input.dtype)
        IN  IF m # "" THEN PoolFail(m, 0)
            ELSE IF input.dtype # gradOutput.dtype
            THEN PoolFail(DtypeMismatch, 1)
            ELSE PoolFinish(gradInput,
                            avg_pool2d_backward_kernel_impl(
                                gradInput, gradOutput, kW, kH, dW, dH,
                                padW, padH, count_include_pad,
                                divisor_override, fvec_size, trap))

(***************************************************************************)
(* Specification SpecShuffle: a tensor and a factor are chosen, then up to *)
(* two calls of the shuffle operators are made, each on the chosen tensor  *)
(* or on the tensor the previous call returned.                            *)
(***************************************************************************)
Factors == (0 - 1)..MaxFactor

ChannelCounts(F) == { sub * F * F + rem : sub \in 0..MaxSub, rem \in 0..1 }

ShuffleShapes(F) ==
    LET CHW == { <<c, h, w>> : c \in ChannelCounts(F),
                               h \in 0..MaxSpatial, w \in 0..MaxSpatial }
    IN  { <<h, w>> : h \in 0..MaxSpatial, w \in 0..MaxSpatial }
        \cup CHW
        \cup { <<n>> \o s : n \in 0..MaxBatch, s \in CHW }
        \cup { <<n, 1>> \o s : n \in 1..MaxBatch, s \in CHW }

\* the tags suggest_memory_format() can return for a tensor of this rank
FormatsOf(sizes) ==
    IF Len(sizes) = 4 THEN {"Contiguous", "ChannelsLast"}
    ELSE IF Len(sizes) = 5 THEN {"Contiguous", "ChannelsLast3d"}
    ELSE {"Contiguous"}

PoolIdle == [op |-> "none"]
KernelIdle == [op |-> "none"]
GraphIdle == [op |-> "none"]
ParIdle == [op |-> "none"]

InitShuffle ==
    /\ factor \in Factors
    /\ \E s \in ShuffleShapes(factor) : \E f \in FormatsOf(s) :
           self = Labelled(s, f)
    /\ calls = <<>>
    /\ divTraps \in BOOLEAN
    /\ pool = PoolIdle /\ presult = PoolIdle
    /\ kcall = KernelIdle /\ kresult = KernelIdle
    /\ graph = GraphIdle /\ par = ParIdle

\* the tensors a call can be made on
Operands ==
    {self} \cup
    (IF calls # <<>> /\ calls[Len(calls)].out.st = "ok"
     THEN {calls[Len(calls)].out.t} ELSE {})

Record(op, x, grad, out) ==
    /\ calls' = Append(calls, [op |-> op, in |-> x, grad |-> grad, out |-> out])
    /\ UNCHANGED <<self, factor, pool, presult, kcall, kresult, divTraps, graph, par>>

PixelShuffleCall ==
    /\ Len(calls) < 2
    /\ \E x \in Operands, grad \in BOOLEAN :
           Record("pixel_shuffle", x, grad, pixel_shuffle(x, factor, grad, divTraps))

PixelUnshuffleCall ==
    /\ Len(calls) < 2
    /\ \E x \in Operands, grad \in BOOLEAN :
           Record("pixel_unshuffle", x, grad,
                  pixel_unshuffle(x, factor, grad, divTraps))

\* the shape of the input whose shuffle has the shape of g
ShuffleInputSizes(g, F) ==
    Leading(g.sizes) \o << SizeNeg(g.sizes, 3) * F * F,
                           SizeNeg(g.sizes, 2) \div F,
                           SizeNeg(g.sizes, 1) \div F >>

\* the shape of the input whose unshuffle has the shape of g
UnshuffleInputSizes(g, F) ==
    Leading(g.sizes) \o << SizeNeg(g.sizes, 3) \div (F * F),
                           SizeNeg(g.sizes, 2) * F,
                           SizeNeg(g.sizes, 1) * F >>

\* g is the gradient of the output of a valid shuffle by F
IsShuffleGrad(g, F) ==
    /\ Len(g.sizes) >= 3 /\ F > 0
    /\ SizeNeg(g.sizes, 2) % F = 0 /\ SizeNeg(g.sizes, 1) % F = 0

\* g is the gradient of the output of a valid unshuffle by F
IsUnshuffleGrad(g, F) ==
    /\ Len(g.sizes) >= 3 /\ F > 0
    /\ SizeNeg(g.sizes, 3) % (F * F) = 0

PixelShuffleBackwardCall ==
    /\ Len(calls) < 2
    /\ \E g \in Operands :
           /\ IsShuffleGrad(g, factor)
           /\ Record("pixel_shuffle_backward", g, FALSE,
                     pixel_shuffle_backward_cpu(
                         g, ShuffleInputSizes(g, factor), factor, divTraps))

PixelUnshuffleBackwardCall ==
    /\ Len(calls) < 2
    /\ \E g \in Operands :
           /\ IsUnshuffleGrad(g, factor)
           /\ Record("pixel_unshuffle_backward", g, FALSE,
                     pixel_unshuffle_backward_cpu(
                         g, UnshuffleInputSizes(g, factor), factor, divTraps))

NextShuffle ==
    \/ PixelShuffleCall
    \/ PixelUnshuffleCall
    \/ PixelShuffleBackwardCall
    \/ PixelUnshuffleBackwardCall

SpecShuffle == InitShuffle /\ [][NextShuffle]_vars

(***************************************************************************)
(* Properties of the shuffle operators (checked under SpecShuffle).        *)
(***************************************************************************)
TwoLayouts == {"Contiguous", "ChannelsLast"}

ValidShuffleArgs(x, F) ==
    /\ Len(x.sizes) >= 3 /\ F > 0
    /\ SizeNeg(x.sizes, 3) % (F * F) = 0
    /\ x.fmt \in TwoLayouts

ValidUnshuffleArgs(x, F) ==
    /\ Len(x.sizes) >= 3 /\ F > 0
    /\ SizeNeg(x.sizes, 2) % F = 0 /\ SizeNeg(x.sizes, 1) % F = 0
    /\ x.fmt \in TwoLayouts

\* channels * height * width of x is not 0
HasPlane(x) ==
    SizeNeg(x.sizes, 3) * SizeNeg(x.sizes, 2) * SizeNeg(x.sizes, 1) > 0

\* call k + 1 was made on the tensor call k returned
Chained(k) == k < Len(calls) /\ calls[k].out.st = "ok" /\ calls[k + 1].in = calls[k].out.t

\* C1: for every valid tensor x and factor F > 0, in the packed and in the
\* channel-last layout, pixel_shuffle(x, F) yields a tensor and
\* pixel_unshuffle of that tensor by F yields x again: same shape, same
\* elements.
C1_RoundTrip ==
    \A k \in 1..Len(calls) :
        (calls[k].op = "pixel_shuffle" /\ ValidShuffleArgs(calls[k].in, factor)) =>
            /\ calls[k].out.st = "ok"
            /\ (Chained(k) /\ calls[k + 1].op = "pixel_unshuffle") =>
                   /\ calls[k + 1].out.st = "ok"
                   /\ calls[k + 1].out.t.sizes = calls[k].in.sizes
                   /\ calls[k + 1].out.t.data = calls[k].in.data

\* C1, on the tensors whose channels * height * width is not 0: the round
\* trip is the identity.
C1_RoundTripWithPlane ==
    \A k \in 1..Len(calls) :
        (/\ calls[k].op = "pixel_shuffle"
         /\ ValidShuffleArgs(calls[k].in, factor)
         /\ HasPlane(calls[k].in)) =>
            /\ calls[k].out.st = "ok"
            /\ (Chained(k) /\ calls[k + 1].op = "pixel_unshuffle") =>
                   /\ calls[k + 1].out.st = "ok"
                   /\ calls[k + 1].out.t = calls[k].in

C1_RoundTripReached ==
    \E k \in 1..Len(calls) :
        /\ calls[k].op = "pixel_shuffle" /\ Chained(k)
        /\ calls[k + 1].op = "pixel_unshuffle" /\ calls[k + 1].out.st = "ok"
        /\ factor > 1 /\ Prod(calls[k].in.sizes) > 4
        /\ calls[k].out.t.data # calls[k].in.data

\* C2: for every valid input [..., C, H, W] and factor F, pixel_shuffle
\* returns a tensor of shape [..., C/F^2, H*F, W*F] and pixel_unshuffle one of
\* shape [..., C*F^2, H/F, W/F]; the leading dimensions are unchanged and the
\* number of elements is preserved.
C2_ShapeLaw ==
    \A k \in 1..Len(calls) :
        LET x == calls[k].in
            y == calls[k].out
        IN  /\ (calls[k].op = "pixel_shuffle" /\ ValidShuffleArgs(x, factor)) =>
                   /\ y.st = "ok"
                   /\ y.t.sizes = Leading(x.sizes) \o
                          << SizeNeg(x.sizes, 3) \div (factor * factor),
                             SizeNeg(x.sizes, 2) * factor,
                             SizeNeg(x.sizes, 1) * factor >>
                   /\ Len(y.t.data) = Len(x.data)
            /\ (calls[k].op = "pixel_unshuffle" /\ ValidUnshuffleArgs(x, factor)) =>
                   /\ y.st = "ok"
                   /\ y.t.sizes = Leading(x.sizes) \o
                          << SizeNeg(x.sizes, 3) * factor * factor,
                             SizeNeg(x.sizes, 2) \div factor,
                             SizeNeg(x.sizes, 1) \div factor >>
                   /\ Len(y.t.data) = Len(x.data)

\* C2, for the calls that return: whenever pixel_shuffle or pixel_unshuffle
\* returns a tensor, it has the shape of the shape law and as many elements
\* as the input.
C2_ShapeLawOfReturned ==
    \A k \in 1..Len(calls) :
        LET x == calls[k].in
            y == calls[k].out
        IN  /\ (calls[k].op = "pixel_shuffle" /\ y.st = "ok") =>
                   /\ y.t.sizes = Leading(x.sizes) \o
                          << SizeNeg(x.sizes, 3) \div (factor * factor),
                             SizeNeg(x.sizes, 2) * factor,
                             SizeNeg(x.sizes, 1) * factor >>
                   /\ Len(y.t.data) = Len(x.data)
            /\ (calls[k].op = "pixel_unshuffle" /\ y.st = "ok") =>
                   /\ y.t.sizes = Leading(x.sizes) \o
                          << SizeNeg(x.sizes, 3) * factor * factor,
                             SizeNeg(x.sizes, 2) \div factor,
                             SizeNeg(x.sizes, 1) \div factor >>
                   /\ Len(y.t.data) = Len(x.data)

\* two calls of the state, the first `opA` and the second `opB`, on the same
\* tensor
SameOperand(a, b, opA, opB) ==
    /\ a \in 1..Len(calls) /\ b \in 1..Len(calls)
    /\ calls[a].op = opA /\ calls[b].op = opB
    /\ calls[a].in = calls[b].in

\* C3: for every valid original shape S, factor F and gradient g,
\* pixel_shuffle_backward_cpu(g, S, F) returns the tensor that
\* pixel_unshuffle_cpu(g, F) returns, and pixel_unshuffle_backward_cpu(g, S, F)
\* the tensor that pixel_shuffle_cpu(g, F) returns, in both layouts.
C3_GradientDuality ==
    \A a, b \in 1..Len(calls) :
        /\ (/\ SameOperand(a, b, "pixel_shuffle_backward", "pixel_unshuffle")
            /\ calls[a].in.fmt \in TwoLayouts) =>
               /\ calls[a].out.st = "ok" /\ calls[b].out.st = "ok"
               /\ calls[a].out.t = calls[b].out.t
        /\ (/\ SameOperand(a, b, "pixel_unshuffle_backward", "pixel_shuffle")
            /\ calls[a].in.fmt \in TwoLayouts) =>
               /\ calls[a].out.st = "ok" /\ calls[b].out.st = "ok"
               /\ calls[a].out.t = calls[b].out.t

\* C3, for the calls that return: when the backward call and the inverse
\* forward call on the same gradient both return, they return the same tensor.
C3_GradientDualityOfReturned ==
    \A a, b \in 1..Len(calls) :
        (/\ \/ SameOperand(a, b, "pixel_shuffle_backward", "pixel_unshuffle")
            \/ SameOperand(a, b, "pixel_unshuffle_backward", "pixel_shuffle")
         /\ calls[a].out.st = "ok" /\ calls[b].out.st = "ok") =>
            calls[a].out.t = calls[b].out.t

\* the arguments of call k fail a check of the operator
Rejected(k) ==
    LET x == calls[k].in
    IN  \/ Len(x.sizes) < 3
        \/ factor <= 0
        \/ calls[k].op = "pixel_shuffle" /\ SizeNeg(x.sizes, 3) % (factor * factor) # 0
        \/ calls[k].op = "pixel_unshuffle" /\ SizeNeg(x.sizes, 2) % factor # 0
        \/ calls[k].op = "pixel_unshuffle" /\ SizeNeg(x.sizes, 1) % factor # 0

\* C6: pixel_shuffle and pixel_unshuffle fail with an argument error, before
\* any output tensor is allocated or any kernel is entered, when the rank is
\* below 3, when the factor is not positive, when (shuffle) the channel count
\* is not divisible by factor^2 or (unshuffle) the height or the width is not
\* divisible by the factor; no % is evaluated for a factor that is not
\* positive, so no divisor of a % is 0.
C6_ChecksBeforeWork ==
    \A k \in 1..Len(calls) :
        calls[k].op \in {"pixel_shuffle", "pixel_unshuffle"} =>
            /\ Rejected(k) =>
                   /\ calls[k].out.st = "error"
                   /\ calls[k].out.alloc = 0
                   /\ calls[k].out.kern = <<>>
            /\ factor <= 0 => calls[k].out.mods = <<>>
            /\ \A i \in 1..Len(calls[k].out.mods) : calls[k].out.mods[i] # 0

C6_ZeroFactorRejected ==
    \E k \in 1..Len(calls) :
        /\ calls[k].op = "pixel_shuffle"
        /\ Len(calls[k].in.sizes) >= 3 /\ factor = 0
        /\ calls[k].out.st = "error"
        /\ \E j \in 1..Len(calls) :
               /\ calls[j].op = "pixel_unshuffle"
               /\ calls[j].out.st = "error" /\ calls[j].out.alloc = 0

(***************************************************************************)
(* Specification SpecPool: a tensor and a pooling configuration are        *)
(* chosen, then avg_pool2d is called on them, and avg_pool2d_backward is   *)
(* called with a gradient of the shape of the output (or of the input).    *)
(***************************************************************************)
PoolHeights == 1..MaxPoolSize
PoolWidths == 1..MaxPoolSize

PoolShapes ==
    { <<MaxPoolChan, h, w>> : h \in PoolHeights, w \in PoolWidths }
    \cup { <<MaxPoolBatch, MaxPoolChan, h, w>> :
               h \in PoolHeights, w \in PoolWidths }

\* a tensor of ones, or one whose element at physical offset k holds k + 1
Filled(sizes, fmt, dtype, pattern) ==
    [sizes |-> sizes, fmt |-> fmt, dtype |-> dtype,
     data |-> [k \in 1..Prod(sizes) |->
                  IF pattern = "ones" THEN Num(1) ELSE Num(k)]]

\* element types and fill patterns of the pooled tensors
PoolFills ==
    { <<"Float", "ones">>, <<"Float", "index">>,
      <<"BFloat16", "index">>, <<"Long", "index">> }

PoolInputs ==
    { Filled(s, f, p[1], p[2]) : s \in PoolShapes, f \in {"Contiguous", "ChannelsLast"},
                                 p \in PoolFills }

PoolTensors == { t \in PoolInputs : t.fmt \in FormatsOf(t.sizes) }

Pairs(lo, hi) == { <<a, b>> : a \in lo..hi, b \in lo..hi }

DivisorOverrides == { <<>>, <<2>> }

\* the arguments of a pooling call and the vector width of the build
PoolCall(input, kernel_size, stride, padding, ceil_mode, count_include_pad, divisor_override, fvec_size) ==
    [input |-> input, kernel_size |-> kernel_size, stride |-> stride,
     padding |-> padding, ceil_mode |-> ceil_mode,
     count_include_pad |-> count_include_pad,
     divisor_override |-> divisor_override, fvec_size |-> fvec_size]

\* the outcome of an integer division by zero concerns Long tensors only
Builds(input) == IF input.dtype = "Long" THEN BOOLEAN ELSE {FALSE}

InitPool ==
    /\ \E input \in PoolTensors,
          kernel_size \in Pairs(1, MaxKernel),
          stride \in Pairs(1, MaxStride),
          padding \in Pairs(0, MaxPad),
          ceil_mode \in BOOLEAN,
          count_include_pad \in BOOLEAN,
          divisor_override \in DivisorOverrides :
           /\ pool = PoolCall(input, kernel_size, stride, padding, ceil_mode,
                              count_include_pad, divisor_override, MaxLane)
           /\ divTraps \in Builds(input)
    /\ presult = PoolIdle
    /\ self = NoTensor /\ factor = 1 /\ calls = <<>>
    /\ kcall = KernelIdle /\ kresult = KernelIdle
    /\ graph = GraphIdle /\ par = ParIdle

AvgPool2dCall ==
    /\ presult.op = "none"
    /\ presult' = [op |-> "avg_pool2d",
                   out |-> avg_pool2d_out_cpu(
                               pool.input, pool.kernel_size, pool.stride,
                               pool.padding, pool.ceil_mode,
                               pool.count_include_pad, pool.divisor_override,
                               pool.fvec_size, divTraps),
                   gradOutput |-> NoTensor]
    /\ UNCHANGED <<self, factor, calls, pool, kcall, kresult, divTraps, graph, par>>

\* the gradients a backward call can be given: of the shape of the output
\* when the forward call returned one (of the input otherwise), in every
\* layout of that rank, of the element type of the input or of another one
GradOutputs ==
    LET s == IF presult.out.st = "ok" THEN presult.out.t.sizes
             ELSE pool.input.sizes
    IN  { Filled(s, f, pool.input.dtype, "index") : f \in FormatsOf(s) }
        \cup { Filled(s, "Contiguous", "Double", "index") }

AvgPool2dBackwardCall ==
    /\ presult.op = "avg_pool2d"
    /\ \E g \in GradOutputs :
           presult' = [op |-> "avg_pool2d_backward",
                       out |-> avg_pool2d_backward_out_cpu(
                                   g, pool.input, pool.kernel_size,
                                   pool.stride, pool.padding,
                                   pool.ceil_mode, pool.count_include_pad,
                                   pool.divisor_override, pool.fvec_size,
                                   divTraps),
                       gradOutput |-> g]
    /\ UNCHANGED <<self, factor, calls, pool, kcall, kresult, divTraps, graph, par>>

NextPool ==
    \/ AvgPool2dCall
    \/ AvgPool2dBackwardCall

SpecPool == InitPool /\ [][NextPool]_vars

(***************************************************************************)
(* The pooling configuration as the claims name it, read from the          *)
(* argument lists of the call.                                             *)
(***************************************************************************)
CfgKH == pool.kernel_size[1]
CfgKW == IF Len(pool.kernel_size) = 1 THEN pool.kernel_size[1]
         ELSE pool.kernel_size[2]
CfgDH == IF pool.stride = <<>> THEN CfgKH ELSE pool.stride[1]
CfgDW == IF pool.stride = <<>> THEN CfgKW
         ELSE IF Len(pool.stride) = 1 THEN pool.stride[1] ELSE pool.stride[2]
CfgPadH == pool.padding[1]
CfgPadW == IF Len(pool.padding) = 1 THEN pool.padding[1] ELSE pool.padding[2]
InH == SizeNeg(pool.input.sizes, 2)
InW == SizeNeg(pool.input.sizes, 1)

\* the clamped window of output row oh / output column ow: [lo, hi)
RowLo(oh) == Max(oh * CfgDH - CfgPadH, 0)
RowHi(oh) == Min(oh * CfgDH - CfgPadH + CfgKH, InH)
ColLo(ow) == Max(ow * CfgDW - CfgPadW, 0)
ColHi(ow) == Min(ow * CfgDW - CfgPadW + CfgKW, InW)

\* the divisor of output location (oh, ow)
DivisorOf(oh, ow) ==
    IF pool.divisor_override # <<>> THEN pool.divisor_override[1]
    ELSE IF pool.count_include_pad
    THEN (Min(oh * CfgDH - CfgPadH + CfgKH, InH + CfgPadH)
              - (oh * CfgDH - CfgPadH))
         * (Min(ow * CfgDW - CfgPadW + CfgKW, InW + CfgPadW)
              - (ow * CfgDW - CfgPadW))
    ELSE (RowHi(oh) - RowLo(oh)) * (ColHi(ow) - ColLo(ow))

\* the element of tensor t at the logical coordinate (n, c, h, w)
Elem(t, n, c, h, w) == t.data[OffsetOf(t.fmt, t.sizes, n, c, h, w) + 1]

Batches(t) == 0..(View4(t.sizes)[1] - 1)
Channels(t) == 0..(View4(t.sizes)[2] - 1)
Rows(t) == 0..(View4(t.sizes)[3] - 1)
Cols(t) == 0..(View4(t.sizes)[4] - 1)

RECURSIVE SumSeq(_)
SumSeq(q) == IF q = <<>> THEN Zero ELSE FracAdd(Head(q), SumSeq(Tail(q)))

\* the sum of plane (n, c) of the input over the clamped window of (oh, ow)
WindowSum(n, c, oh, ow) ==
    LET R == RowHi(oh) - RowLo(oh)
        C == ColHi(ow) - ColLo(ow)
    IN  IF R <= 0 \/ C <= 0 THEN Zero
        ELSE SumSeq([k \in 1..(R * C) |->
                        Elem(pool.input, n, c, RowLo(oh) + (k - 1) \div C,
                             ColLo(ow) + ((k - 1) % C))])

ForwardReturned == presult.op = "avg_pool2d" /\ presult.out.st = "ok"
BackwardReturned == presult.op = "avg_pool2d_backward" /\ presult.out.st = "ok"

\* C4: every element of the tensor avg_pool2d returns is the sum of the
\* input over the clamped window of its location, divided once by the
\* divisor of the location (the override, else the size of the window
\* clipped to the padded input, else the number of in-bounds elements); the
\* division is that of the element type
C4_ForwardAverage ==
    ForwardReturned =>
        \A n \in Batches(presult.out.t), c \in Channels(presult.out.t),
           oh \in Rows(presult.out.t), ow \in Cols(presult.out.t) :
            Elem(presult.out.t, n, c, oh, ow)
                = Divide(pool.input.dtype, WindowSum(n, c, oh, ow),
                         DivisorOf(oh, ow))

\* C4 witness: a 2x2 input of ones, kernel 3, stride 1, padding 1, padding
\* counted: output[0,0] is 4/9
C4_PaddedCornerExample ==
    /\ ForwardReturned
    /\ pool.input.dtype = "Float"
    /\ InH = 2 /\ InW = 2
    /\ \A k \in 1..Len(pool.input.data) : pool.input.data[k] = <<1, 1>>
    /\ pool.kernel_size = <<3, 3>> /\ pool.stride = <<1, 1>>
    /\ pool.padding = <<1, 1>>
    /\ pool.count_include_pad /\ pool.divisor_override = <<>>
    /\ Elem(presult.out.t, 0, 0, 0, 0) = <<4, 9>>

\* the same example with the padding not counted: output[0,0] is 1
C4_UnpaddedCornerExample ==
    /\ ForwardReturned
    /\ pool.input.dtype = "Float"
    /\ InH = 2 /\ InW = 2
    /\ \A k \in 1..Len(pool.input.data) : pool.input.data[k] = <<1, 1>>
    /\ pool.kernel_size = <<3, 3>> /\ pool.stride = <<1, 1>>
    /\ pool.padding = <<1, 1>>
    /\ ~pool.count_include_pad /\ pool.divisor_override = <<>>
    /\ Elem(presult.out.t, 0, 0, 0, 0) = <<1, 1>>

\* whether the clamped window of (oh, ow) contains the input position (ih, iw)
Covers(oh, ow, ih, iw) ==
    /\ RowLo(oh) <= ih /\ ih < RowHi(oh)
    /\ ColLo(ow) <= iw /\ iw < ColHi(ow)

\* the sum, over the output locations 1..k (row-major) whose window
\* contains (ih, iw), of the gradient divided by the divisor
RECURSIVE GradSum(_, _, _, _, _, _)
GradSum(g, n, c, ih, iw, k) ==
    IF k = 0 THEN Zero
    ELSE LET OW == SizeNeg(g.sizes, 1)
             oh == (k - 1) \div OW
             ow == (k - 1) % OW
             before == GradSum(g, n, c, ih, iw, k - 1)
         IN  IF Covers(oh, ow, ih, iw)
             THEN Add(g.dtype, before,
                      Divide(g.dtype, Elem(g, n, c, oh, ow), DivisorOf(oh, ow)))
             ELSE before

\* how many output locations have (ih, iw) in their window
Covering(g, ih, iw) ==
    Cardinality({ x \in Rows(g) \X Cols(g) : Covers(x[1], x[2], ih, iw) })

\* C5: every element of the tensor avg_pool2d_backward returns is the sum,
\* over the output locations whose clamped window contains its position,
\* of the gradient at the location divided by the divisor of the location;
\* a position in no window holds 0
C5_BackwardScatterSum ==
    BackwardReturned =>
        \A n \in Batches(presult.out.t), c \in Channels(presult.out.t),
           ih \in Rows(presult.out.t), iw \in Cols(presult.out.t) :
            Elem(presult.out.t, n, c, ih, iw)
                = GradSum(presult.gradOutput, n, c, ih, iw,
                          SizeNeg(presult.gradOutput.sizes, 2)
                          * SizeNeg(presult.gradOutput.sizes, 1))

\* C5 witness: a backward call returned a gradient in which one position
\* lies in several windows and holds more than any single contribution,
\* and another lies in no window and holds 0
C5_OverlapAndGapReached ==
    /\ BackwardReturned
    /\ pool.input.dtype = "Float"
    /\ \E ih \in Rows(presult.out.t), iw \in Cols(presult.out.t) :
           /\ Covering(presult.gradOutput, ih, iw) >= 2
           /\ \A oh \in Rows(presult.gradOutput), ow \in Cols(presult.gradOutput) :
                  Covers(oh, ow, ih, iw) =>
                      Elem(presult.out.t, 0, 0, ih, iw)
                          # Divide("Float",
                                   Elem(presult.gradOutput, 0, 0, oh, ow),
                                   DivisorOf(oh, ow))
    /\ \E ih \in Rows(presult.out.t), iw \in Cols(presult.out.t) :
           /\ Covering(presult.gradOutput, ih, iw) = 0
           /\ Elem(presult.out.t, 0, 0, ih, iw) = Zero

(***************************************************************************)
(* Specification SpecPoolArgs: the same two calls, given argument lists of *)
(* every length from 0 to MaxList and every divisor override, zero         *)
(* included, on one small tensor per layout.                               *)
(***************************************************************************)
\* the sequences over `vals` of length 0..MaxList
Lists(vals) == UNION { [1..n -> vals] : n \in 0..MaxList }

ArgTensors ==
    { Filled(<<MaxPoolChan, MaxPoolSize, MaxPoolSize>>, "Contiguous", "Float", "index"),
      Filled(<<1, MaxPoolChan, MaxPoolSize, MaxPoolSize>>, "Contiguous", "Float", "index"),
      Filled(<<1, MaxPoolChan, MaxPoolSize, MaxPoolSize>>, "ChannelsLast", "Float", "index") }

InitPoolArgs ==
    /\ \E input \in ArgTensors,
          kernel_size \in Lists(1..2),
          stride \in Lists(1..2),
          padding \in Lists(0..1),
          divisor_override \in { <<>>, <<0>>, <<2>> } :
           pool = PoolCall(input, kernel_size, stride, padding, FALSE, TRUE, divisor_override, MaxLane)
    /\ divTraps = FALSE
    /\ presult = PoolIdle
    /\ self = NoTensor /\ factor = 1 /\ calls = <<>>
    /\ kcall = KernelIdle /\ kresult = KernelIdle
    /\ graph = GraphIdle /\ par = ParIdle

SpecPoolArgs == InitPoolArgs /\ [][NextPool]_vars

Called == presult.op \in {"avg_pool2d", "avg_pool2d_backward"}

\* the call failed before any kernel ran and returned no tensor
FailedEarly ==
    /\ presult.out.st = "error"
    /\ presult.out.kern = <<>>
    /\ presult.out.divs = {}
    /\ presult.out.t = NoTensor

LengthMessages == {KernelSizeLength, StrideLength, PaddingLength}

\* C7 as stated: a call in which the kernel_size, the stride or the
\* padding list has a length other than 1 or 2 is rejected with an argument
\* error and computes no pooling
C7_EveryListOneOrTwo ==
    (/\ Called
     /\ \/ Len(pool.kernel_size) \notin {1, 2}
        \/ Len(pool.stride) \notin {1, 2}
        \/ Len(pool.padding) \notin {1, 2})
    => (FailedEarly /\ presult.out.msg \in LengthMessages)

\* C7 as the code has it: a call in which the kernel_size or the padding
\* list has a length other than 1 or 2, or the stride list a length other
\* than 0, 1 or 2, is rejected with an argument error before anything is
\* allocated and computes no pooling
C7_ListLengthsRejected ==
    (/\ Called
     /\ \/ Len(pool.kernel_size) \notin {1, 2}
        \/ Len(pool.stride) \notin {0, 1, 2}
        \/ Len(pool.padding) \notin {1, 2})
    => (/\ FailedEarly
        /\ presult.out.msg \in LengthMessages
        /\ presult.out.alloc = 0)

\* C7 witness: a backward call with an empty padding list, the other two
\* lists being pairs, was rejected for the padding
C7_EmptyPaddingRejected ==
    /\ presult.op = "avg_pool2d_backward"
    /\ Len(pool.kernel_size) = 2 /\ Len(pool.stride) = 2
    /\ pool.padding = <<>>
    /\ FailedEarly
    /\ presult.out.msg = PaddingLength

\* an empty stride list is accepted: the stride is the kernel size
C7_EmptyStrideAccepted ==
    /\ presult.op = "avg_pool2d"
    /\ pool.stride = <<>>
    /\ pool.kernel_size = <<2, 1>>
    /\ presult.out.st = "ok"
    /\ presult.out.t.sizes = <<MaxPoolChan, MaxPoolSize \div 2, MaxPoolSize>>

\* C8: a forward or backward call whose divisor override is 0, and a
\* backward call whose gradient has another element type than the input,
\* fails before any kernel runs and returns no tensor
C8_DivisorAndDtypeRejected ==
    /\ (Called /\ pool.divisor_override = <<0>>) => FailedEarly
    /\ (presult.op = "avg_pool2d_backward"
        /\ presult.gradOutput.dtype # pool.input.dtype) => FailedEarly

\* C8 witness: a backward call with valid lists and divisor and a Double
\* gradient for a Float input failed on the element type, after the
\* gradient of the input was allocated
C8_DtypeMismatchRejected ==
    /\ presult.op = "avg_pool2d_backward"
    /\ presult.gradOutput.dtype = "Double" /\ pool.input.dtype = "Float"
    /\ presult.out.msg = DtypeMismatch
    /\ presult.out.alloc = 1
    /\ FailedEarly

\* a forward call with valid lists failed on a divisor override of 0
C8_ZeroDivisorRejected ==
    /\ presult.op = "avg_pool2d"
    /\ pool.divisor_override = <<0>>
    /\ presult.out.msg = DivisorZero
    /\ presult.out.alloc = 0
    /\ FailedEarly

(***************************************************************************)
(* Specification SpecDispatch: a tensor of rank 3, 4 or 5 with any tag of  *)
(* its rank is given to one of the six dispatchers, or directly to one of  *)
(* the five channel-last kernels.                                          *)
(***************************************************************************)
DispatchShapes ==
    LET CHW == { <<c, h, w>> : c \in {1, 4}, h \in 1..MaxSpatial, w \in 1..MaxSpatial }
    IN  CHW \cup { <<n>> \o s : n \in 1..MaxBatch, s \in CHW }
            \cup { <<n, 1>> \o s : n \in 1..MaxBatch, s \in CHW }

InitDispatch ==
    /\ \E sizes \in DispatchShapes, dtype \in {"Float", "BFloat16"}, F \in 1..MaxFactor, fvec_size \in 1..MaxLane :
         \E fmt \in FormatsOf(sizes) :
           kcall = [sizes |-> sizes, fmt |-> fmt, dtype |-> dtype, factor |-> F, fvec_size |-> fvec_size]
    /\ kresult = KernelIdle
    /\ divTraps = FALSE
    /\ self = NoTensor /\ factor = 1 /\ calls = <<>>
    /\ pool = PoolIdle /\ presult = PoolIdle
    /\ graph = GraphIdle /\ par = ParIdle

\* the shapes of the result of a shuffle, of an unshuffle, and of a pooling
\* with kernel 1 and stride F, of a tensor of shape `sizes`
ShuffledSizes(sizes, F) ==
    Leading(sizes) \o << SizeNeg(sizes, 3) \div (F * F), SizeNeg(sizes, 2) * F, SizeNeg(sizes, 1) * F >>
UnshuffledSizes(sizes, F) ==
    Leading(sizes) \o << SizeNeg(sizes, 3) * F * F, SizeNeg(sizes, 2) \div F, SizeNeg(sizes, 1) \div F >>
PooledSizes(sizes, F) ==
    Leading(sizes) \o << SizeNeg(sizes, 3), (SizeNeg(sizes, 2) - 1) \div F + 1, (SizeNeg(sizes, 1) - 1) \div F + 1 >>

CanShuffle(sizes, F) == SizeNeg(sizes, 3) % (F * F) = 0
CanUnshuffle(sizes, F) == SizeNeg(sizes, 2) % F = 0 /\ SizeNeg(sizes, 1) % F = 0

\* the tensor of the call, holding labels (shuffle) or values (pooling)
KLabelled == Labelled(kcall.sizes, kcall.fmt)
KFilled == Filled(kcall.sizes, kcall.fmt, kcall.dtype, "index")

Dispatch(op, d) ==
    /\ kresult.op = "none"
    /\ kresult' = [op |-> op, direct |-> FALSE, k |-> d.k, r |-> d.r]
    /\ UNCHANGED <<self, factor, calls, pool, presult, kcall, divTraps, graph, par>>

Direct(op, r) ==
    /\ kresult.op = "none"
    /\ kresult' = [op |-> op, direct |-> TRUE, k |-> <<op>>, r |-> r]
    /\ UNCHANGED <<self, factor, calls, pool, presult, kcall, divTraps, graph, par>>

PixelShuffleKernel ==
    /\ CanShuffle(kcall.sizes, kcall.factor)
    /\ Dispatch("pixel_shuffle_kernel",
                pixel_shuffle_kernel(
                    EmptyTensor(ShuffledSizes(kcall.sizes, kcall.factor), kcall.fmt, "Float"),
                    KLabelled, kcall.factor, divTraps))

PixelShuffleBackwardKernel ==
    /\ CanUnshuffle(kcall.sizes, kcall.factor)
    /\ Dispatch("pixel_shuffle_backward_kernel",
                pixel_shuffle_backward_kernel(
                    EmptyTensor(UnshuffledSizes(kcall.sizes, kcall.factor), kcall.fmt, "Float"),
                    KLabelled, kcall.factor, divTraps))

PixelUnshuffleKernel ==
    /\ CanUnshuffle(kcall.sizes, kcall.factor)
    /\ Dispatch("pixel_unshuffle_kernel",
                pixel_unshuffle_kernel(
                    EmptyTensor(UnshuffledSizes(kcall.sizes, kcall.factor), kcall.fmt, "Float"),
                    KLabelled, kcall.factor, divTraps))

PixelUnshuffleBackwardKernel ==
    /\ CanShuffle(kcall.sizes, kcall.factor)
    /\ Dispatch("pixel_unshuffle_backward_kernel",
                pixel_unshuffle_backward_kernel(
                    EmptyTensor(ShuffledSizes(kcall.sizes, kcall.factor), kcall.fmt, "Float"),
                    KLabelled, kcall.factor, divTraps))

\* pooling with kernel 1, stride `factor`, no padding
AvgPool2dKernelImpl ==
    /\ kresult.op = "none"
    /\ Dispatch("avg_pool2d_kernel_impl",
             avg_pool2d_kernel_impl(
                 EmptyPoolTensor(PooledSizes(kcall.sizes, kcall.factor), kcall.fmt, kcall.dtype),
                 KFilled, 1, 1, kcall.factor, kcall.factor, 0, 0, TRUE, <<>>,
                 kcall.fvec_size, divTraps))

\* the tensor of the call is the gradient; the input had UnpooledSizes
AvgPool2dBackwardKernelImpl ==
    /\ kresult.op = "none"
    /\ Dispatch("avg_pool2d_backward_kernel_impl",
             avg_pool2d_backward_kernel_impl(
                 ZeroTensor(Leading(kcall.sizes) \o
                                << SizeNeg(kcall.sizes, 3),
                                   SizeNeg(kcall.sizes, 2) * kcall.factor,
                                   SizeNeg(kcall.sizes, 1) * kcall.factor >>,
                            kcall.fmt, kcall.dtype),
                 KFilled, 1, 1, kcall.factor, kcall.factor, 0, 0, TRUE, <<>>,
                 kcall.fvec_size, divTraps))

\* a channel-last kernel is given a channel-last tensor, or one of a rank
\* that has no channel-last layout
ForChannelsLast == kcall.fmt = "ChannelsLast" \/ Len(kcall.sizes) # 4

CpuPixelShuffleChannelsLast ==
    /\ ForChannelsLast /\ CanShuffle(kcall.sizes, kcall.factor)
    /\ Direct("cpu_pixel_shuffle_channels_last",
              cpu_pixel_shuffle_channels_last(
                  EmptyTensor(ShuffledSizes(kcall.sizes, kcall.factor), kcall.fmt, "Float"),
                  KLabelled, kcall.factor))

CpuPixelShuffleBackwardChannelsLast ==
    /\ ForChannelsLast /\ CanUnshuffle(kcall.sizes, kcall.factor)
    /\ Direct("cpu_pixel_shuffle_backward_channels_last",
              cpu_pixel_shuffle_backward_channels_last(
                  EmptyTensor(UnshuffledSizes(kcall.sizes, kcall.factor), kcall.fmt, "Float"),
                  KLabelled, kcall.factor))

CpuAvgPoolChannelsLast ==
    /\ ForChannelsLast /\ kcall.dtype # "BFloat16"
    /\ Direct("cpu_avg_pool_channels_last",
              cpu_avg_pool_channels_last(
                  kcall.dtype,
                  EmptyPoolTensor(PooledSizes(kcall.sizes, kcall.factor), kcall.fmt, kcall.dtype),
                  KFilled, 1, 1, kcall.factor, kcall.factor, 0, 0, TRUE, <<>>,
                  VecSize(kcall.dtype, kcall.fvec_size)))

CpuAvgPoolChannelsLastBFloat16 ==
    /\ ForChannelsLast /\ kcall.dtype = "BFloat16"
    /\ Direct("cpu_avg_pool_channels_last<BFloat16>",
              cpu_avg_pool_channels_last_BFloat16(
                  EmptyPoolTensor(PooledSizes(kcall.sizes, kcall.factor), kcall.fmt, kcall.dtype),
                  KFilled, 1, 1, kcall.factor, kcall.factor, 0, 0, TRUE, <<>>,
                  kcall.fvec_size))

CpuAvgPoolBackwardChannelsLast ==
    /\ ForChannelsLast
    /\ Direct("cpu_avg_pool_backward_channels_last",
              cpu_avg_pool_backward_channels_last(
                  kcall.dtype,
                  ZeroTensor(Leading(kcall.sizes) \o
                                 << SizeNeg(kcall.sizes, 3),
                                    SizeNeg(kcall.sizes, 2) * kcall.factor,
                                    SizeNeg(kcall.sizes, 1) * kcall.factor >>,
                             kcall.fmt, kcall.dtype),
                  KFilled, 1, 1, kcall.factor, kcall.factor, 0, 0, TRUE, <<>>,
                  VecSize(kcall.dtype, kcall.fvec_size)))

NextDispatch ==
    \/ PixelShuffleKernel
    \/ PixelShuffleBackwardKernel
    \/ PixelUnshuffleKernel
    \/ PixelUnshuffleBackwardKernel
    \/ AvgPool2dKernelImpl
    \/ AvgPool2dBackwardKernelImpl
    \/ CpuPixelShuffleChannelsLast
    \/ CpuPixelShuffleBackwardChannelsLast
    \/ CpuAvgPoolChannelsLast
    \/ CpuAvgPoolChannelsLastBFloat16
    \/ CpuAvgPoolBackwardChannelsLast

SpecDispatch == InitDispatch /\ [][NextDispatch]_vars

UnsupportedMessage == "Unsupported memory format. Supports only ChannelsLast, Contiguous"

\* C9: a dispatcher enters a kernel only for a tensor tagged Contiguous or
\* ChannelsLast, and fails with the unsupported-format error for any other
\* tag; a channel-last kernel given a tensor of a rank other than 4 fails
\* and writes nothing
C9_DispatchByLayout ==
    /\ (kresult.op # "none" /\ ~kresult.direct) =>
          /\ (kresult.k # <<>> => kcall.fmt \in {"Contiguous", "ChannelsLast"})
          /\ (kcall.fmt \notin {"Contiguous", "ChannelsLast"} =>
                 /\ kresult.k = <<>>
                 /\ kresult.r.st = "error"
                 /\ kresult.r.msg = UnsupportedMessage)
    /\ (kresult.op # "none" /\ kresult.direct /\ Len(kcall.sizes) # 4) =>
          /\ kresult.r.st = "error"
          /\ kresult.r.data = <<>>

\* C9 witness: the pooling backward dispatcher was given a rank-5 tensor
\* tagged ChannelsLast3d and failed without entering a kernel
C9_ChannelsLast3dRejected ==
    /\ kresult.op = "avg_pool2d_backward_kernel_impl"
    /\ kcall.fmt = "ChannelsLast3d"
    /\ kresult.k = <<>>
    /\ kresult.r.st = "error"

\* the channel-last pooling backward kernel was given a rank-3 tensor and
\* failed
C9_Rank3ChannelsLastRejected ==
    /\ kresult.op = "cpu_avg_pool_backward_channels_last"
    /\ Len(kcall.sizes) = 3
    /\ kresult.r.st = "error"

(***************************************************************************)
(* Specification SpecKernel: one of the three forward pooling kernels is   *)
(* run on an output buffer that was never written, with a configuration    *)
(* and an output extent no argument check has constrained, so that windows *)
(* lying wholly in the padding or past the input occur.                    *)
(***************************************************************************)
KernelShapes == { <<c, s, s>> : c \in 1..MaxKChan, s \in 1..MaxKSize }

\* <<layout, element type, fvec_size>> of the three kernels
KernelKinds ==
    { <<"Contiguous", "Float", 1>> }
    \cup { <<"ChannelsLast", "Float", l>> : l \in 1..MaxLane }
    \cup { <<"ChannelsLast", "BFloat16", l>> : l \in 1..MaxLane }

InitKernel ==
    /\ \E s \in KernelShapes, kind \in KernelKinds,
          kernel \in Pairs(1, MaxKKernel), d \in 1..MaxStride,
          padding \in Pairs(0, MaxKPad), out \in Pairs(1, MaxKOut),
          count_include_pad \in BOOLEAN, divisor_override \in DivisorOverrides :
           kcall = [sizes |-> IF kind[1] = "Contiguous" THEN s ELSE <<MaxPoolBatch>> \o s,
                    fmt |-> kind[1], dtype |-> kind[2], fvec_size |-> kind[3],
                    kH |-> kernel[1], kW |-> kernel[2], dH |-> d, dW |-> d,
                    padH |-> padding[1], padW |-> padding[2],
                    output_height |-> out[1], output_width |-> out[2],
                    count_include_pad |-> count_include_pad,
                    divisor_override |-> divisor_override]
    /\ kresult = KernelIdle
    /\ divTraps = FALSE
    /\ self = NoTensor /\ factor = 1 /\ calls = <<>>
    /\ pool = PoolIdle /\ presult = PoolIdle
    /\ graph = GraphIdle /\ par = ParIdle

KInput == Filled(kcall.sizes, kcall.fmt, kcall.dtype, "index")

\* the output buffer before the kernel: every element is junk
KOutput ==
    EmptyPoolTensor(Leading(kcall.sizes) \o
                        <<SizeNeg(kcall.sizes, 3), kcall.output_height, kcall.output_width>>,
                    kcall.fmt, kcall.dtype)

Kernel(op, r) ==
    /\ kresult.op = "none"
    /\ kresult' = [op |-> op, r |-> r, t |-> [KOutput EXCEPT !.data = r.data]]
    /\ UNCHANGED <<self, factor, calls, pool, presult, kcall, divTraps, graph, par>>

CpuAvgPool ==
    /\ kcall.fmt = "Contiguous"
    /\ Kernel("cpu_avg_pool",
              cpu_avg_pool(kcall.dtype, KOutput, KInput, kcall.kW, kcall.kH,
                           kcall.dW, kcall.dH, kcall.padW, kcall.padH,
                           kcall.count_include_pad, kcall.divisor_override))

CpuAvgPoolCL ==
    /\ kcall.fmt = "ChannelsLast" /\ kcall.dtype # "BFloat16"
    /\ Kernel("cpu_avg_pool_channels_last",
              cpu_avg_pool_channels_last(
                  kcall.dtype, KOutput, KInput, kcall.kW, kcall.kH,
                  kcall.dW, kcall.dH, kcall.padW, kcall.padH,
                  kcall.count_include_pad, kcall.divisor_override,
                  VecSize(kcall.dtype, kcall.fvec_size)))

CpuAvgPoolCLBFloat16 ==
    /\ kcall.fmt = "ChannelsLast" /\ kcall.dtype = "BFloat16"
    /\ Kernel("cpu_avg_pool_channels_last<BFloat16>",
              cpu_avg_pool_channels_last_BFloat16(
                  KOutput, KInput, kcall.kW, kcall.kH,
                  kcall.dW, kcall.dH, kcall.padW, kcall.padH,
                  kcall.count_include_pad, kcall.divisor_override,
                  kcall.fvec_size))

NextKernel ==
    \/ CpuAvgPool
    \/ CpuAvgPoolCL
    \/ CpuAvgPoolCLBFloat16

SpecKernel == InitKernel /\ [][NextKernel]_vars

\* the clamped window of output location (oh, ow) of the kernel call is empty
KEmptyWindow(oh, ow) ==
    \/ Max(oh * kcall.dH - kcall.padH, 0)
           >= Min(Min(oh * kcall.dH - kcall.padH + kcall.kH,
                      SizeNeg(kcall.sizes, 2) + kcall.padH),
                  SizeNeg(kcall.sizes, 2))
    \/ Max(ow * kcall.dW - kcall.padW, 0)
           >= Min(Min(ow * kcall.dW - kcall.padW + kcall.kW,
                      SizeNeg(kcall.sizes, 1) + kcall.padW),
                  SizeNeg(kcall.sizes, 1))

\* the position of location (n, c, oh, ow) in the kernel's loop: the packed
\* kernel iterates over elements, the channel-last kernels over (n, oh, ow)
KIteration(n, c, oh, ow) ==
    IF kcall.fmt = "Contiguous"
    THEN (c * kcall.output_height + oh) * kcall.output_width + ow
    ELSE (n * kcall.output_height + oh) * kcall.output_width + ow

\* C10: after each of the three forward kernels, every output element of
\* a location whose clamped window is empty is 0, whatever the buffer held
\* and whatever the divisor policy, and no division was performed for the
\* location
C10_EmptyWindowIsZero ==
    kresult.op # "none" =>
        /\ kresult.r.st = "ok"
        /\ \A n \in Batches(kresult.t), c \in Channels(kresult.t),
              oh \in Rows(kresult.t), ow \in Cols(kresult.t) :
               KEmptyWindow(oh, ow) =>
                   /\ Elem(kresult.t, n, c, oh, ow) = Zero
                   /\ KIteration(n, c, oh, ow) \notin kresult.r.divs

\* C10 witness: the reduced-precision kernel ran with the padding not
\* counted; one location has an empty window and holds 0, another has
\* not, was divided and holds a quotient other than 0
C10_EmptyWindowReached ==
    /\ kresult.op = "cpu_avg_pool_channels_last<BFloat16>"
    /\ ~kcall.count_include_pad /\ kcall.divisor_override = <<>>
    /\ \E oh \in Rows(kresult.t), ow \in Cols(kresult.t) :
           /\ KEmptyWindow(oh, ow)
           /\ \A c \in Channels(kresult.t) : Elem(kresult.t, 0, c, oh, ow) = Zero
    /\ \E oh \in Rows(kresult.t), ow \in Cols(kresult.t) :
           /\ ~KEmptyWindow(oh, ow)
           /\ KIteration(0, 0, oh, ow) \in kresult.r.divs
           /\ Elem(kresult.t, 0, 0, oh, ow) # Zero

(***************************************************************************)
(* Specification SpecPoolSums: avg_pool2d and avg_pool2d_backward on       *)
(* Float tensors of up to MaxWide rows and columns, where the arithmetic   *)
(* is exact, with and without padding.                                     *)
(***************************************************************************)
WideShapes ==
    { <<1, h, w>> : h \in 1..MaxWide, w \in 1..MaxWide }
    \cup { <<MaxPoolBatch, MaxPoolChan, h, MaxWide - 1>> : h \in 1..(MaxWide - 1) }

WideTensors ==
    { Filled(s, f, "Float", p) : s \in WideShapes, f \in {"Contiguous", "ChannelsLast"},
                                 p \in {"ones", "index"} }

InitPoolSums ==
    /\ \E input \in { t \in WideTensors : t.fmt \in FormatsOf(t.sizes) },
          kernel_size \in Pairs(1, MaxKernel),
          stride \in Pairs(1, MaxKernel),
          pad \in 0..MaxPad,
          ceil_mode \in BOOLEAN,
          count_include_pad \in BOOLEAN,
          divisor_override \in DivisorOverrides :
           pool = PoolCall(input, kernel_size, stride, <<pad, pad>>, ceil_mode,
                           count_include_pad, divisor_override, MaxLane)
    /\ divTraps = FALSE
    /\ presult = PoolIdle
    /\ self = NoTensor /\ factor = 1 /\ calls = <<>>
    /\ kcall = KernelIdle /\ kresult = KernelIdle
    /\ graph = GraphIdle /\ par = ParIdle

SpecPoolSums == InitPoolSums /\ [][NextPool]_vars

\* the call of avg_pool2d of the state, made with the other value of
\* count_include_pad
OtherFlagResult ==
    avg_pool2d_out_cpu(pool.input, pool.kernel_size, pool.stride, pool.padding,
                       pool.ceil_mode, ~pool.count_include_pad,
                       pool.divisor_override, pool.fvec_size, divTraps)

NoPadding == CfgPadH = 0 /\ CfgPadW = 0

AllOnes(t) == \A k \in 1..Len(t.data) : t.data[k] = <<1, 1>>

\* C11: with padding 0 and no divisor override, avg_pool2d returns the
\* same outcome (the same tensor, or the same error) with
\* count_include_pad true and with count_include_pad false, for every
\* input, kernel size, stride and ceiling mode
C11_FlagIrrelevantWithoutPadding ==
    (presult.op = "avg_pool2d" /\ NoPadding /\ pool.divisor_override = <<>>) =>
        OtherFlagResult = presult.out

\* C11 witness: a 1x4x4 input of ones, kernel 2, stride 2, padding 0, the
\* padding counted: the output is 1x2x2 of ones, and so it is with the
\* padding not counted
C11_AllOnesExample ==
    /\ ForwardReturned
    /\ pool.input.sizes = <<1, 4, 4>> /\ AllOnes(pool.input)
    /\ pool.kernel_size = <<2, 2>> /\ pool.stride = <<2, 2>>
    /\ NoPadding /\ pool.divisor_override = <<>>
    /\ pool.count_include_pad
    /\ presult.out.t.sizes = <<1, 2, 2>> /\ AllOnes(presult.out.t)
    /\ OtherFlagResult.st = "ok" /\ AllOnes(OtherFlagResult.t)

\* with padding and a window that reaches into it, the two flag values
\* give different outputs
C11_FlagMattersWithPadding ==
    /\ ForwardReturned /\ ~NoPadding /\ pool.divisor_override = <<>>
    /\ OtherFlagResult # presult.out

\* the sum of the elements of tensor t
TensorSum(t) == SumSeq(t.data)

\* C12: after avg_pool2d backward with padding 0, stride >= kernel in both
\* directions and no divisor override, the sum of grad_input over the
\* whole input equals the sum of grad_output over the whole output
C12_GradientSumConserved ==
    (/\ BackwardReturned /\ NoPadding /\ pool.divisor_override = <<>>
     /\ CfgDH >= CfgKH /\ CfgDW >= CfgKW) =>
        TensorSum(presult.out.t) = TensorSum(presult.gradOutput)

\* C12 witness: such a backward call returned, with several output
\* locations, a window of more than one element and a window clipped by
\* the input border, and the gradient's sum is not 0
C12_ConservedOverClippedWindows ==
    /\ BackwardReturned /\ NoPadding /\ pool.divisor_override = <<>>
    /\ CfgDH >= CfgKH /\ CfgDW >= CfgKW
    /\ Len(presult.gradOutput.data) > 1
    /\ \E oh \in Rows(presult.gradOutput), ow \in Cols(presult.gradOutput) :
           /\ oh * CfgDH + CfgKH > InH
           /\ (RowHi(oh) - RowLo(oh)) * (ColHi(ow) - ColLo(ow)) > 1
    /\ TensorSum(presult.out.t) = TensorSum(presult.gradOutput)
    /\ TensorSum(presult.out.t) # Zero

\* with padding that is counted in the divisor the sum is not conserved
C12_PaddingLosesGradient ==
    /\ BackwardReturned /\ ~NoPadding /\ pool.divisor_override = <<>>
    /\ pool.count_include_pad
    /\ TensorSum(presult.out.t) # TensorSum(presult.gradOutput)

(***************************************************************************)
(* The computation graph the rewrite passes work on.  A node is a record   *)
(* [id, kind, inputs, sizes, const]: it has one output value, which is     *)
(* named by the node's id; `inputs` are the ids of the nodes producing its *)
(* inputs; `sizes` is concrete_sizes() of the output's type (<<>> when     *)
(* unknown, else <<the sizes>>); `const` is the IValue of a prim::Constant.*)
(* The inputs of the graph are prim::Param nodes.  A graph is a record     *)
(* [nodes, outputs, next]: the nodes in block order, the returned values,  *)
(* and the id the next created node gets.                                  *)
(***************************************************************************)
NoConst == [tag |-> "None", val |-> <<>>]
IntConst(n) == [tag |-> "Int", val |-> <<n, 1>>]
DoubleConst(n, d) == [tag |-> "Double", val |-> <<n, d>>]
BoolConst(b) == [tag |-> "Bool", val |-> <<IF b THEN 1 ELSE 0>>]
IntListConst(l) == [tag |-> "IntList", val |-> l]

Node(id, kind, inputs, sizes, const) ==
    [id |-> id, kind |-> kind, inputs |-> inputs, sizes |-> sizes, const |-> const]

Param(id, sizes) == Node(id, "prim::Param", <<>>, sizes, NoConst)
Constant(id, const) == Node(id, "prim::Constant", <<>>, <<>>, const)

Ids(g) == { g.nodes[i].id : i \in DOMAIN g.nodes }
IndexOf(g, id) == CHOOSE i \in DOMAIN g.nodes : g.nodes[i].id = id
NodeOf(g, id) == g.nodes[IndexOf(g, id)]

\* Value::uses(): the places where value v is consumed, by a node or by
\* the return of the graph
Occurrences(q, v) == Cardinality({ i \in DOMAIN q : q[i] = v })
RECURSIVE UsesIn(_, _, _)
UsesIn(nodes, k, v) ==
    IF k > Len(nodes) THEN 0
    ELSE Occurrences(nodes[k].inputs, v) + UsesIn(nodes, k + 1, v)
Uses(g, v) == UsesIn(g.nodes, 1, v) + Occurrences(g.outputs, v)

\* Value::replaceAllUsesWith
Substitute(q, old, new) == [i \in DOMAIN q |-> IF q[i] = old THEN new ELSE q[i]]
replaceAllUsesWith(g, old, new) ==
    [g EXCEPT !.nodes = [i \in DOMAIN g.nodes |->
                            [g.nodes[i] EXCEPT !.inputs = Substitute(g.nodes[i].inputs, old, new)]],
              !.outputs = Substitute(g.outputs, old, new)]

\* the nodes of sequence q whose id is not in `dead`, in order
RECURSIVE Without(_, _)
Without(q, dead) ==
    IF q = <<>> THEN <<>>
    ELSE IF Head(q).id \in dead THEN Without(Tail(q), dead)
    ELSE <<Head(q)>> \o Without(Tail(q), dead)

\* graph inputs stay, and so does an in-place operator (it writes its input)
InPlace(kind) == kind \in {"aten::relu_", "aten::sigmoid_", "aten::hardtanh_", "aten::elu_", "aten::mul_", "aten::silu_", "aten::add_"}
Removable(n) == n.kind # "prim::Param" /\ ~InPlace(n.kind)

\* EliminateDeadCode: nodes without side effect whose output is unused are
\* removed, until none is left
RECURSIVE EliminateDeadCode(_)
EliminateDeadCode(g) ==
    LET dead == { g.nodes[i].id :
                    i \in { k \in DOMAIN g.nodes :
                               /\ Removable(g.nodes[k])
                               /\ Uses(g, g.nodes[k].id) = 0 } }
    IN  IF dead = {} THEN g
        ELSE EliminateDeadCode([g EXCEPT !.nodes = Without(g.nodes, dead)])

\* graph->insertNode / insertConstant at the insert point: before node `at`
InsertBefore(g, at, new) ==
    LET k == IndexOf(g, at)
    IN  [g EXCEPT !.nodes = SubSeq(g.nodes, 1, k - 1) \o new
                              \o SubSeq(g.nodes, k, Len(g.nodes)),
                  !.next = g.next + Len(new)]

(***************************************************************************)
(* insertPrePackedConv2dOp: every convolution whose static shapes are      *)
(* known becomes convolution_prepack + convolution_run.                    *)
(***************************************************************************)
\* sizes of rank 4 or more count as known
Known4d_at_least(sizes) == sizes # <<>> /\ Len(sizes[1]) >= 4

Known4d(sizes) == sizes # <<>> /\ Len(sizes[1]) = 4

IsConvolution(kind) == kind \in {"aten::conv2d", "torch_ipex::convolution_forward"}

\* the loop body with the groups operand added before kernel_size
PrePackNode_groups_first(g, n) ==
    LET input_size_option == NodeOf(g, n.inputs[1]).sizes
        weight_size_option == NodeOf(g, n.inputs[2]).sizes
        isConv2d == n.kind = "aten::conv2d"
        id == g.next
        last == Len(n.inputs)
    IN
    IF ~IsConvolution(n.kind) THEN g
    ELSE IF ~Known4d(input_size_option) THEN g
    ELSE IF isConv2d /\ ~Known4d(weight_size_option) THEN g
    ELSE
    LET weight_size == weight_size_option[1]
        \* conv2d: kernel_size, weight_is_prepacked, weight_is_channels_last,
        \* output_channel are inserted as constants id .. id + 3
        consts == IF isConv2d
                  THEN << Constant(id, IntListConst(<<weight_size[3], weight_size[4]>>)),
                          Constant(id + 1, BoolConst(FALSE)),
                          Constant(id + 2, BoolConst(FALSE)),
                          Constant(id + 3, IntConst(weight_size[1])) >>
                  ELSE <<>>
        c == Len(consts)
        input_size == Constant(id + c, IntListConst(input_size_option[1]))
        prepack_inputs ==
            IF isConv2d
            THEN SubSeq(n.inputs, 2, last - 1)
                   \o <<n.inputs[last], id, id + 3, id + 2, id + 1, id + c>>
            ELSE SubSeq(n.inputs, 2, last) \o <<id + c>>
        prepack_node == Node(id + c + 1, "ipex_prepack::convolution_prepack",
                             prepack_inputs, <<>>, NoConst)
        prepack_conv == Node(id + c + 2, "ipex_prepack::convolution_run",
                             <<n.inputs[1], id + c + 1>>, n.sizes, NoConst)
    IN  replaceAllUsesWith(
            InsertBefore(g, n.id, consts \o <<input_size, prepack_node, prepack_conv>>),
            n.id, id + c + 2)

\* the loop body for node n of graph g
PrePackNode(g, n) ==
    LET input_size_option == NodeOf(g, n.inputs[1]).sizes
        weight_size_option == NodeOf(g, n.inputs[2]).sizes
        isConv2d == n.kind = "aten::conv2d"
        id == g.next
        last == Len(n.inputs)
    IN
    IF ~IsConvolution(n.kind) THEN g
    ELSE IF ~Known4d(input_size_option) THEN g
    ELSE IF isConv2d /\ ~Known4d(weight_size_option) THEN g
    ELSE
    LET weight_size == weight_size_option[1]
        \* conv2d: kernel_size, weight_is_prepacked, weight_is_channels_last,
        \* output_channel are inserted as constants id .. id + 3
        consts == IF isConv2d
                  THEN << Constant(id, IntListConst(<<weight_size[3], weight_size[4]>>)),
                          Constant(id + 1, BoolConst(FALSE)),
                          Constant(id + 2, BoolConst(FALSE)),
                          Constant(id + 3, IntConst(weight_size[1])) >>
                  ELSE <<>>
        c == Len(consts)
        input_size == Constant(id + c, IntListConst(input_size_option[1]))
        prepack_inputs ==
            IF isConv2d
            THEN SubSeq(n.inputs, 2, last - 1)
                   \o <<id, n.inputs[last], id + 3, id + 2, id + 1, id + c>>
            ELSE SubSeq(n.inputs, 2, last) \o <<id + c>>
        prepack_node == Node(id + c + 1, "ipex_prepack::convolution_prepack",
                             prepack_inputs, <<>>, NoConst)
        prepack_conv == Node(id + c + 2, "ipex_prepack::convolution_run",
                             <<n.inputs[1], id + c + 1>>, n.sizes, NoConst)
    IN  replaceAllUsesWith(
            InsertBefore(g, n.id, consts \o <<input_size, prepack_node, prepack_conv>>),
            n.id, id + c + 2)

\* for (Node* n : b->nodes()): the nodes the block had, in order
RECURSIVE PrePackLoop(_, _)
PrePackLoop(g, todo) ==
    IF todo = <<>> THEN g
    ELSE PrePackLoop(PrePackNode(g, NodeOf(g, Head(todo))), Tail(todo))

insertPrePackedConv2dOp(g) ==
    EliminateDeadCode(PrePackLoop(g, [i \in DOMAIN g.nodes |-> g.nodes[i].id]))

(***************************************************************************)
(* Rewrite patterns.  A pattern graph is a record [params, nodes, ret]:    *)
(* the names of its inputs, its nodes [kind, inputs, out] over value       *)
(* names, and the name of the value it returns.                            *)
(***************************************************************************)
PNode(kind, inputs, out) == [kind |-> kind, inputs |-> inputs, out |-> out]
PGraph(params, nodes, ret) == [params |-> params, nodes |-> nodes, ret |-> ret]

\* graph(%input, %weight, %bias, %stride, ..., %input_size)
ConvParams ==
    << "input", "weight", "bias", "stride", "padding", "dilation", "kernel_size",
       "groups", "output_channel", "weight_is_channels_last",
       "weight_is_prepacked", "input_size" >>

\* graph(%input, %weight, %bias, %accumu, %alpha, %stride, ..., %input_size)
ConvAddParams ==
    << "input", "weight", "bias", "accumu", "alpha", "stride", "padding",
       "dilation", "kernel_size", "groups", "output_channel",
       "weight_is_channels_last", "weight_is_prepacked", "input_size" >>

\* %packed_weight = ipex_prepack::convolution_prepack(%weight, ..., %input_size)
PrepackLine == PNode("ipex_prepack::convolution_prepack", Tail(ConvParams), "packed_weight")

\* %x = ipex_prepack::convolution_run(%input, %packed_weight)
RunLine == PNode("ipex_prepack::convolution_run", <<"input", "packed_weight">>, "x")

Aten(op) == "aten::" \o op

conv_relu_rstring(relu) ==
    PGraph(ConvParams, <<PrepackLine, RunLine, PNode(Aten(relu), <<"x">>, "res")>>, "res")
\* conv_relu_fused with the run operator of the sigmoid template
conv_relu_fused_as_sigmoid ==
    PGraph(ConvParams,
           <<PrepackLine,
             PNode("ipex_prepack::convolution_sigmoid_run", <<"input", "packed_weight">>, "res")>>,
           "res")

conv_relu_fused ==
    PGraph(ConvParams,
           <<PrepackLine,
             PNode("ipex_prepack::convolution_relu_run", <<"input", "packed_weight">>, "res")>>,
           "res")

conv_sigmoid_rstring(sigmoid) ==
    PGraph(ConvParams, <<PrepackLine, RunLine, PNode(Aten(sigmoid), <<"x">>, "res")>>, "res")
conv_sigmoid_fused ==
    PGraph(ConvParams,
           <<PrepackLine,
             PNode("ipex_prepack::convolution_sigmoid_run", <<"input", "packed_weight">>, "res")>>,
           "res")

conv_hardtanh_rstring(hardtanh) ==
    PGraph(ConvParams \o <<"min", "max">>,
           <<PrepackLine, RunLine, PNode(Aten(hardtanh), <<"x", "min", "max">>, "res")>>, "res")
conv_hardtanh_fused ==
    PGraph(ConvParams \o <<"min", "max">>,
           <<PrepackLine,
             PNode("ipex_prepack::convolution_hardtanh_run",
                   <<"input", "min", "max", "packed_weight">>, "res")>>,
           "res")

conv_elu_rstring(elu) ==
    PGraph(ConvParams \o <<"alpha", "scale", "input_scale">>,
           <<PrepackLine, RunLine,
             PNode(Aten(elu), <<"x", "alpha", "scale", "input_scale">>, "res")>>, "res")
conv_elu_fused ==
    PGraph(ConvParams \o <<"alpha", "scale", "input_scale">>,
           <<PrepackLine,
             PNode("ipex_prepack::convolution_elu_run",
                   <<"input", "alpha", "scale", "input_scale", "packed_weight">>, "res")>>,
           "res")

\* the conv+sigmoid+mul template with the operands of the mul exchanged
conv_sigmoid_mul_rstring_operands_exchanged(sigmoid, mul) ==
    PGraph(ConvParams,
           <<PrepackLine, RunLine, PNode(Aten(sigmoid), <<"x">>, "y"),
             PNode(Aten(mul), <<"y", "x">>, "res")>>, "res")

conv_sigmoid_mul_rstring(sigmoid, mul) ==
    PGraph(ConvParams,
           <<PrepackLine, RunLine, PNode(Aten(sigmoid), <<"x">>, "y"),
             PNode(Aten(mul), <<"x", "y">>, "res")>>, "res")
conv_silu_rstring(silu) ==
    PGraph(ConvParams, <<PrepackLine, RunLine, PNode(Aten(silu), <<"x">>, "res")>>, "res")
conv_swish_fused ==
    PGraph(ConvParams,
           <<PrepackLine,
             PNode("ipex_prepack::convolution_swish_run", <<"input", "packed_weight">>, "res")>>,
           "res")

\* conv   Y
\*   \   /
\*    add
conv_add_rstring_v1(add) ==
    PGraph(ConvAddParams,
           <<PrepackLine, RunLine, PNode(Aten(add), <<"x", "accumu", "alpha">>, "res")>>, "res")

\* the second add pattern with the operands in the order of the first
conv_add_rstring_v2_unswapped(add) ==
    PGraph(ConvAddParams,
           <<PrepackLine, RunLine, PNode(Aten(add), <<"x", "accumu", "alpha">>, "res")>>, "res")

\*  Y     conv
\*   \   /
\*    add
conv_add_rstring_v2(add) ==
    PGraph(ConvAddParams,
           <<PrepackLine, RunLine, PNode(Aten(add), <<"accumu", "x", "alpha">>, "res")>>, "res")
conv_add_fused ==
    PGraph(ConvAddParams,
           <<PrepackLine,
             PNode("ipex_prepack::convolution_add_run",
                   <<"input", "accumu", "alpha", "packed_weight">>, "res")>>,
           "res")

\* a pattern of add + relu over the convolution_run node itself
conv_add_relu_rstring_over_add(relu) ==
    PGraph(ConvAddParams,
           <<PrepackLine, RunLine,
             PNode("aten::add", <<"x", "accumu", "alpha">>, "y"),
             PNode(Aten(relu), <<"y">>, "res")>>, "res")

conv_add_relu_rstring(relu) ==
    PGraph(ConvAddParams,
           <<PrepackLine,
             PNode("ipex_prepack::convolution_add_run",
                   <<"input", "accumu", "alpha", "packed_weight">>, "x"),
             PNode(Aten(relu), <<"x">>, "res")>>, "res")
conv_add_relu_fused ==
    PGraph(ConvAddParams,
           <<PrepackLine,
             PNode("ipex_prepack::convolution_add_relu_run",
                   <<"input", "accumu", "alpha", "packed_weight">>, "res")>>,
           "res")

\* RegisterRewritePattern(pattern, replacement)
RewritePattern(pattern, replacement) == [pattern |-> pattern, replacement |-> replacement]

relu_operators == <<"relu", "relu_">>
sigmoid_operators == <<"sigmoid", "sigmoid_">>
hardtanh_operators == <<"hardtanh", "hardtanh_">>
elu_operators == <<"elu", "elu_">>
mul_operators == <<"mul", "mul_">>
silu_operators == <<"silu", "silu_">>
add_operators == <<"add", "add_">>

rewriter_relu == [i \in 1..2 |-> RewritePattern(conv_relu_rstring(relu_operators[i]), conv_relu_fused)]
rewriter_sigmoid == [i \in 1..2 |-> RewritePattern(conv_sigmoid_rstring(sigmoid_operators[i]), conv_sigmoid_fused)]
rewriter_hardtanh == [i \in 1..2 |-> RewritePattern(conv_hardtanh_rstring(hardtanh_operators[i]), conv_hardtanh_fused)]
rewriter_elu == [i \in 1..2 |-> RewritePattern(conv_elu_rstring(elu_operators[i]), conv_elu_fused)]
\* for each sigmoid, for each mul
rewriter_swish ==
    [i \in 1..4 |-> RewritePattern(
                        conv_sigmoid_mul_rstring(sigmoid_operators[((i - 1) \div 2) + 1],
                                                 mul_operators[((i - 1) % 2) + 1]),
                        conv_swish_fused)]
rewriter_silu == [i \in 1..2 |-> RewritePattern(conv_silu_rstring(silu_operators[i]), conv_swish_fused)]
rewriter_add_v1 == [i \in 1..2 |-> RewritePattern(conv_add_rstring_v1(add_operators[i]), conv_add_fused)]
rewriter_add_v2 == [i \in 1..2 |-> RewritePattern(conv_add_rstring_v2(add_operators[i]), conv_add_fused)]
rewriter_add_relu == [i \in 1..2 |-> RewritePattern(conv_add_relu_rstring(relu_operators[i]), conv_add_relu_fused)]

(***************************************************************************)
(* The subgraph matcher: a pattern is matched backwards from its last      *)
(* node, the anchor.  A match binds every value name of the pattern to a   *)
(* value of the graph.                                                     *)
(***************************************************************************)
Range(q) == { q[i] : i \in DOMAIN q }
Names(pat) == Range(pat.params) \cup { pat.nodes[i].out : i \in DOMAIN pat.nodes }

NoMatch == [ok |-> FALSE, map |-> <<>>]
Bind(b, name, v) == [b EXCEPT !.map[name] = v]

\* the node of the pattern that produces value `name`
PatNodeOf(pat, name) ==
    pat.nodes[CHOOSE i \in DOMAIN pat.nodes : pat.nodes[i].out = name]

\* the uses of value `name` inside the pattern
RECURSIVE PatUsesFrom(_, _, _)
PatUsesFrom(pat, k, name) ==
    IF k > Len(pat.nodes) THEN 0
    ELSE Occurrences(pat.nodes[k].inputs, name) + PatUsesFrom(pat, k + 1, name)
PatUses(pat, name) == PatUsesFrom(pat, 1, name)

RECURSIVE matchNodes(_, _, _, _, _)
RECURSIVE matchInputs(_, _, _, _, _, _)

\* matchValues(v1, v2): a value already bound must be bound to v2; a value
\* inside the pattern (neither input nor output) must have as many uses in
\* the graph as in the pattern; then the producing nodes must match
matchValues(pat, g, b, v1, v2) ==
    IF ~b.ok THEN b
    ELSE IF b.map[v1] # 0 THEN (IF b.map[v1] = v2 THEN b ELSE NoMatch)
    ELSE IF v1 \in Range(pat.params) THEN Bind(b, v1, v2)
    ELSE IF v1 # pat.ret /\ Uses(g, v2) # PatUses(pat, v1) THEN NoMatch
    ELSE matchNodes(pat, g, Bind(b, v1, v2), PatNodeOf(pat, v1), NodeOf(g, v2))

matchNodes(pat, g, b, n1, n2) ==
    IF n1.kind # n2.kind \/ Len(n1.inputs) # Len(n2.inputs) THEN NoMatch
    ELSE matchInputs(pat, g, b, n1, n2, 1)

matchInputs(pat, g, b, n1, n2, k) ==
    IF ~b.ok \/ k > Len(n1.inputs) THEN b
    ELSE matchInputs(pat, g, matchValues(pat, g, b, n1.inputs[k], n2.inputs[k]),
                     n1, n2, k + 1)

matchesSubgraphFromAnchorNode(pat, g, anchor) ==
    matchNodes(pat, g,
               [ok |-> TRUE,
                map |-> [name \in Names(pat) |-> IF name = pat.ret THEN anchor.id ELSE 0]],
               PatNodeOf(pat, pat.ret), anchor)

(***************************************************************************)
(* Guard predicates (filters) of the rewriters.                            *)
(***************************************************************************)
Accept == "accept"
Reject == "reject"
Throw == "throw"

\* getIValue(name, match_vmap, vmap): the constant bound to `name`, if the
\* bound value is a constant
getIValue(name, g, b) ==
    LET n == NodeOf(g, b.map[name])
    IN  IF n.kind = "prim::Constant" THEN <<n.const>> ELSE <<>>

\* a guard for which every input_scale other than 1.0 or 1 is an error
filter_conv2d_elu_strict(g, b) ==
    LET input_scale == getIValue("input_scale", g, b)
    IN  IF input_scale # <<>> /\ input_scale[1].val = <<1, 1>> THEN Accept ELSE Throw

\* a guard that accepts every constant input_scale
filter_conv2d_elu_any_constant(g, b) ==
    IF getIValue("input_scale", g, b) = <<>> THEN Throw ELSE Accept

\* filter_conv2d_elu: optional::value() of a value that is no constant and
\* toInt() of a constant that is neither double nor int throw
filter_conv2d_elu(g, b) ==
    LET input_scale == getIValue("input_scale", g, b)
    IN  IF input_scale = <<>> THEN Throw
        ELSE LET input_scale_value == input_scale[1]
             IN  IF input_scale_value.tag = "Double"
                 THEN (IF input_scale_value.val = <<1, 1>> THEN Accept ELSE Reject)
                 ELSE IF input_scale_value.tag # "Int" THEN Throw
                 ELSE (IF input_scale_value.val = <<1, 1>> THEN Accept ELSE Reject)

\* the guard of the add patterns: the scale of the accumulation must be a
\* constant equal to the identity, 1.0 or 1; a missing constant is an
\* unexpected state
AlphaIsIdentity(g, b) ==
    LET alpha == getIValue("alpha", g, b)
    IN  IF alpha = <<>> THEN Throw
        ELSE IF alpha[1].tag \in {"Double", "Int"} /\ alpha[1].val = <<1, 1>> THEN Accept
        ELSE Reject

fuse_add_filter_v1(g, b) == AlphaIsIdentity(g, b)
fuse_add_filter_v2(g, b) == AlphaIsIdentity(g, b)

NoFilter == "none"

Filter(name, g, b) ==
    CASE name = "filter_conv2d_elu" -> filter_conv2d_elu(g, b)
      [] name = "fuse_add_filter_v1" -> fuse_add_filter_v1(g, b)
      [] name = "fuse_add_filter_v2" -> fuse_add_filter_v2(g, b)
      [] OTHER -> Accept

(***************************************************************************)
(* The rewriter.  A rewrite state is [g, thrown, log]: the graph, whether  *)
(* an exception left the pass, and the matches judged so far.              *)
(***************************************************************************)
RewriteState(g) == [g |-> g, thrown |-> FALSE, log |-> <<>>]

MaxOf(S) == CHOOSE x \in S : \A y \in S : y <= x

\* the replacement's nodes, created with fresh ids: an input is the bound
\* value of a pattern input, or the output of an earlier replacement node
NewInput(rep, b, base, name) ==
    IF name \in Range(rep.params) THEN b.map[name]
    ELSE base + (CHOOSE i \in DOMAIN rep.nodes : rep.nodes[i].out = name) - 1

NewNodes(rep, b, base, sizes) ==
    [k \in DOMAIN rep.nodes |->
        Node(base + k - 1, rep.nodes[k].kind,
             [j \in DOMAIN rep.nodes[k].inputs |-> NewInput(rep, b, base, rep.nodes[k].inputs[j])],
             IF rep.nodes[k].out = rep.ret THEN sizes ELSE <<>>, NoConst)]

\* the replacement is inserted after the last of the matched inputs, the
\* uses of the match's output go to the replacement's output, and the
\* matched nodes are destroyed
ReplaceMatch(g, rp, b) ==
    LET pat == rp.pattern
        rep == rp.replacement
        ins_point == MaxOf({ IndexOf(g, b.map[p]) : p \in Range(pat.params) })
        old == b.map[pat.ret]
        new == NewNodes(rep, b, g.next, NodeOf(g, old).sizes)
        inserted == [g EXCEPT !.nodes = SubSeq(g.nodes, 1, ins_point) \o new
                                          \o SubSeq(g.nodes, ins_point + 1, Len(g.nodes)),
                              !.next = g.next + Len(new)]
        rewired == replaceAllUsesWith(inserted, old, NewInput(rep, b, g.next, rep.ret))
    IN  [rewired EXCEPT !.nodes =
            Without(rewired.nodes, { b.map[pat.nodes[i].out] : i \in DOMAIN pat.nodes })]

\* one anchor candidate of one pattern: match, guard, replace
RewriteAt(rs, rp, filter, id) ==
    IF rs.thrown \/ id \notin Ids(rs.g) THEN rs
    ELSE
    LET b == matchesSubgraphFromAnchorNode(rp.pattern, rs.g, NodeOf(rs.g, id))
        verdict == Filter(filter, rs.g, b)
        entry == [filter |-> filter, anchor |-> id, verdict |-> verdict,
                  fused |-> rp.replacement.nodes[Len(rp.replacement.nodes)].kind,
                  res |-> IF verdict = Accept
                          THEN rs.g.next + Len(rp.replacement.nodes) - 1 ELSE 0]
    IN  IF ~b.ok THEN rs
        ELSE IF verdict = Throw
        THEN [rs EXCEPT !.thrown = TRUE, !.log = Append(rs.log, entry)]
        ELSE IF verdict = Reject
        THEN [rs EXCEPT !.log = Append(rs.log, entry)]
        ELSE [rs EXCEPT !.g = ReplaceMatch(rs.g, rp, b), !.log = Append(rs.log, entry)]

RECURSIVE RewriteAnchors(_, _, _, _)
RewriteAnchors(rs, rp, filter, todo) ==
    IF todo = <<>> THEN rs
    ELSE RewriteAnchors(RewriteAt(rs, rp, filter, Head(todo)), rp, filter, Tail(todo))

rewriteSinglePatternOnGraph(rs, rp, filter) ==
    RewriteAnchors(rs, rp, filter, [i \in DOMAIN rs.g.nodes |-> rs.g.nodes[i].id])

\* runOnGraph: the registered patterns, in the order of their registration
RECURSIVE RunPatterns(_, _, _, _)
RunPatterns(rs, rewriter, filter, k) ==
    IF k > Len(rewriter) \/ rs.thrown THEN rs
    ELSE RunPatterns(rewriteSinglePatternOnGraph(rs, rewriter[k], filter),
                     rewriter, filter, k + 1)

runOnGraph(rs, rewriter, filter) == RunPatterns(rs, rewriter, filter, 1)

fuseConvWithEltwise(g) ==
    LET r1 == runOnGraph(RewriteState(g), rewriter_relu, NoFilter)
        r2 == runOnGraph(r1, rewriter_sigmoid, NoFilter)
        r3 == runOnGraph(r2, rewriter_hardtanh, NoFilter)
        r4 == runOnGraph(r3, rewriter_elu, "filter_conv2d_elu")
        r5 == runOnGraph(r4, rewriter_swish, NoFilter)
    IN  runOnGraph(r5, rewriter_silu, NoFilter)

\* fuseConvAddRelu with the add+relu rewriter run before the add rewriters
fuseConvAddRelu_relu_first(g) ==
    LET r1 == runOnGraph(RewriteState(g), rewriter_add_relu, NoFilter)
        r2 == runOnGraph(r1, rewriter_add_v1, "fuse_add_filter_v1")
    IN  runOnGraph(r2, rewriter_add_v2, "fuse_add_filter_v2")

fuseConvAddRelu(g) ==
    LET r1 == runOnGraph(RewriteState(g), rewriter_add_v1, "fuse_add_filter_v1")
        r2 == runOnGraph(r1, rewriter_add_v2, "fuse_add_filter_v2")
    IN  runOnGraph(r2, rewriter_add_relu, NoFilter)

(***************************************************************************)
(* Specification SpecFusion: a graph with one convolution, followed by an  *)
(* activation or by an add (and a relu), is given to the passes            *)
(* insertPrePackedConv2dOp, fuseConvWithEltwise and fuseConvAddRelu, in    *)
(* any order, MaxPasses times at most.                                     *)
(***************************************************************************)
\* concrete_sizes() of a tensor type: unknown, rank 5, rank 4
StaticSizes == { <<>>, << <<1, 2, 3, 3, 3>> >>, << <<1, 2, 3, 3>> >> }

\* the scalar operand of add (alpha) and of elu (input_scale): a constant,
\* or NoConst for a value that is no constant
Scalars == { IntConst(1), IntConst(2), DoubleConst(1, 1), DoubleConst(3, 2), NoConst }

\* what consumes the convolution's output, and what consumes that; a mul
\* consumes the convolution's output x and the sigmoid's output y, as
\* mul(x, y) (order 1) or mul(y, x) (order 2)
Tails ==
    { [op |-> op, order |-> 1, scalar |-> IntConst(1), then |-> "none"] :
          op \in {"none", "relu", "relu_", "sigmoid", "tanh", "silu", "hardtanh"} }
    \cup { [op |-> op, order |-> o, scalar |-> IntConst(1), then |-> "mul"] :
               op \in {"sigmoid", "sigmoid_"}, o \in 1..2 }
    \cup { [op |-> op, order |-> 1, scalar |-> s, then |-> "none"] :
               op \in {"elu", "elu_"}, s \in Scalars }
    \cup { [op |-> op, order |-> o, scalar |-> s, then |-> t] :
               op \in {"add", "add_"}, o \in 1..2, s \in Scalars,
               t \in {"none", "relu", "relu_"} }

\* ids of the nodes of a built graph
Built ==
    [input |-> 1, weight |-> 2, accumu |-> 12, scalarParam |-> 13,
     scalarConst |-> 14, conv |-> 20, tail |-> 21, then |-> 22, fresh |-> 30]

\* the graph of convolution `conv` on an input and a weight of static
\* sizes inS and wS, with tail `tail`; `extra`: the convolution's output is
\* also returned by the graph
BuildGraph(conv, inS, wS, tail, extra) ==
    LET params == << Param(Built.input, inS), Param(Built.weight, wS) >>
                  \o [i \in 1..11 |-> Param(i + 2, <<>>)]
        scalar == IF tail.scalar = NoConst THEN Built.scalarParam ELSE Built.scalarConst
        consts == (IF tail.op \in {"elu", "elu_", "add", "add_"} /\ tail.scalar # NoConst
                   THEN << Constant(Built.scalarConst, tail.scalar) >> ELSE <<>>)
                  \o (IF tail.op \in {"elu", "elu_", "hardtanh"}
                      THEN << Constant(15, DoubleConst(1, 1)), Constant(16, DoubleConst(1, 1)) >>
                      ELSE <<>>)
        convNode == Node(Built.conv, conv,
                         IF conv = "aten::conv2d" THEN <<1, 2, 3, 4, 5, 6, 7>>
                         ELSE <<1, 2, 3, 4, 5, 6, 8, 7, 9, 10, 11>>,
                         <<>>, NoConst)
        tailNode ==
            IF tail.op = "none" THEN <<>>
            ELSE IF tail.op \in {"elu", "elu_"}
            THEN << Node(Built.tail, Aten(tail.op), <<Built.conv, 15, 16, scalar>>, <<>>, NoConst) >>
            ELSE IF tail.op = "hardtanh"
            THEN << Node(Built.tail, Aten(tail.op), <<Built.conv, 15, 16>>, <<>>, NoConst) >>
            ELSE IF tail.op \in {"add", "add_"}
            THEN << Node(Built.tail, Aten(tail.op),
                         IF tail.order = 1 THEN <<Built.conv, Built.accumu, scalar>>
                         ELSE <<Built.accumu, Built.conv, scalar>>, <<>>, NoConst) >>
            ELSE << Node(Built.tail, Aten(tail.op), <<Built.conv>>, <<>>, NoConst) >>
        thenNode == IF tail.then = "none" THEN <<>>
                    ELSE IF tail.then = "mul"
                    THEN << Node(Built.then, Aten(tail.then),
                                 IF tail.order = 1 THEN <<Built.conv, Built.tail>>
                                 ELSE <<Built.tail, Built.conv>>, <<>>, NoConst) >>
                    ELSE << Node(Built.then, Aten(tail.then), <<Built.tail>>, <<>>, NoConst) >>
        last == IF tail.then # "none" THEN Built.then
                ELSE IF tail.op # "none" THEN Built.tail ELSE Built.conv
    IN  [nodes |-> params \o consts \o <<convNode>> \o tailNode \o thenNode,
         outputs |-> IF extra /\ last # Built.conv THEN <<last, Built.conv>> ELSE <<last>>,
         next |-> Built.fresh]

\* the tails with which the convolution's output is also given a second use
SharedTails ==
    { t \in Tails : t.op \in {"relu", "add"} /\ t.order = 1 /\ t.scalar = IntConst(1) }

\* the weight's rank is varied for aten::conv2d, the one convolution whose
\* weight sizes the prepack pass reads
InitFusion ==
    /\ \E conv \in {"aten::conv2d", "torch_ipex::convolution_forward"},
          inS \in StaticSizes, wS \in StaticSizes, tail \in Tails, extra \in BOOLEAN :
           /\ conv = "torch_ipex::convolution_forward" => wS # << <<1, 2, 3, 3, 3>> >>
           /\ extra => tail \in SharedTails
           /\ LET g == BuildGraph(conv, inS, wS, tail, extra)
              IN  graph = [op |-> "graph", orig |-> g, g |-> g, passes |-> <<>>,
                           thrown |-> FALSE, log |-> <<>>]
    /\ par = ParIdle
    /\ self = NoTensor /\ factor = 1 /\ calls = <<>>
    /\ pool = PoolIdle /\ presult = PoolIdle
    /\ kcall = KernelIdle /\ kresult = KernelIdle
    /\ divTraps = FALSE

\* a pass can be run while no exception has ended the compilation
CanRun == graph.op = "graph" /\ ~graph.thrown /\ Len(graph.passes) < MaxPasses

PassRan(pass, rs) ==
    /\ graph' = [graph EXCEPT !.g = rs.g, !.thrown = rs.thrown,
                              !.passes = Append(graph.passes, pass),
                              !.log = graph.log \o
                                      [i \in DOMAIN rs.log |->
                                          [pass |-> Len(graph.passes) + 1, pattern |-> rs.log[i]]]]
    /\ UNCHANGED <<self, factor, calls, pool, presult, kcall, kresult, divTraps, par>>

InsertPrePackedConv2dOp ==
    /\ CanRun
    /\ PassRan("insertPrePackedConv2dOp", RewriteState(insertPrePackedConv2dOp(graph.g)))

FuseConvWithEltwise ==
    /\ CanRun
    /\ PassRan("fuseConvWithEltwise", fuseConvWithEltwise(graph.g))

FuseConvAddRelu ==
    /\ CanRun
    /\ PassRan("fuseConvAddRelu", fuseConvAddRelu(graph.g))

NextFusion ==
    \/ InsertPrePackedConv2dOp
    \/ FuseConvWithEltwise
    \/ FuseConvAddRelu

SpecFusion == InitFusion /\ [][NextFusion]_vars

(***************************************************************************)
(* Properties of the rewrite passes (checked under SpecFusion).            *)
(***************************************************************************)
NodesOfKind(g, kind) == { g.nodes[i] : i \in { k \in DOMAIN g.nodes : g.nodes[k].kind = kind } }
HasKind(g, kind) == NodesOfKind(g, kind) # {}

\* the convolution of the graph the passes were given, and its consumers
OrigConv == NodeOf(graph.orig, Built.conv)
OrigTail == NodeOf(graph.orig, Built.tail)
HasTail(ops) == Built.tail \in Ids(graph.orig) /\ OrigTail.kind \in { Aten(op) : op \in ops }
HasThen(ops) ==
    Built.then \in Ids(graph.orig)
    /\ NodeOf(graph.orig, Built.then).kind \in { Aten(op) : op \in ops }
ConvUsedOnce == Uses(graph.orig, Built.conv) = 1

\* the static shapes the prepack pass needs are known
RankOf(id) ==
    LET sizes == NodeOf(graph.orig, id).sizes
    IN  IF sizes = <<>> THEN <<>> ELSE <<Len(sizes[1])>>
ShapesKnown ==
    /\ RankOf(Built.input) = <<4>>
    /\ OrigConv.kind = "aten::conv2d" => RankOf(Built.weight) = <<4>>

\* node n consumes the convolution's input and a packed weight, which a
\* convolution_prepack node used by n alone makes of the convolution's weight
RunsPacked(n, packedAt) ==
    /\ n.inputs[1] = OrigConv.inputs[1]
    /\ LET p == NodeOf(graph.g, n.inputs[packedAt])
       IN  /\ p.kind = "ipex_prepack::convolution_prepack"
           /\ p.inputs[1] = OrigConv.inputs[2]
           /\ Len(p.inputs) = 11
           /\ Uses(graph.g, p.id) = 1

\* C13: after insertPrePackedConv2dOp followed by fuseConvWithEltwise, a
\* convolution of known static shapes whose output only a relu or relu_
\* consumes has become one convolution_relu_run node on the convolution's
\* input and the packed weight; what consumed the relu's output consumes
\* the fused node's output; no relu and no convolution_run node is left
C13_ConvReluFused ==
    (/\ graph.op = "graph"
     /\ graph.passes = <<"insertPrePackedConv2dOp", "fuseConvWithEltwise">>
     /\ ShapesKnown /\ HasTail({"relu", "relu_"}) /\ ConvUsedOnce) =>
        /\ ~graph.thrown
        /\ Cardinality(NodesOfKind(graph.g, "ipex_prepack::convolution_relu_run")) = 1
        /\ \A n \in NodesOfKind(graph.g, "ipex_prepack::convolution_relu_run") :
               /\ Len(n.inputs) = 2 /\ RunsPacked(n, 2)
               /\ graph.g.outputs = Substitute(graph.orig.outputs, Built.tail, n.id)
        /\ ~HasKind(graph.g, "aten::relu") /\ ~HasKind(graph.g, "aten::relu_")
        /\ ~HasKind(graph.g, "ipex_prepack::convolution_run")
        /\ ~HasKind(graph.g, OrigConv.kind)
        /\ Built.tail \notin Ids(graph.g)

\* C13 witness: an aten::conv2d followed by the in-place relu_ was fused
C13_InPlaceReluFused ==
    /\ graph.op = "graph"
    /\ graph.passes = <<"insertPrePackedConv2dOp", "fuseConvWithEltwise">>
    /\ OrigConv.kind = "aten::conv2d" /\ HasTail({"relu_"}) /\ ConvUsedOnce
    /\ HasKind(graph.g, "ipex_prepack::convolution_relu_run")
    /\ ~HasKind(graph.g, "aten::relu_")

\* a convolution whose output something else consumes too is not fused
C13_SharedOutputNotFused ==
    /\ graph.op = "graph"
    /\ graph.passes = <<"insertPrePackedConv2dOp", "fuseConvWithEltwise">>
    /\ ShapesKnown /\ HasTail({"relu"}) /\ ~ConvUsedOnce
    /\ HasKind(graph.g, "ipex_prepack::convolution_run")
    /\ HasKind(graph.g, "aten::relu")

\* the scalar operand of the tail of the graph the passes were given
OrigScalar ==
    IF Built.scalarConst \in Ids(graph.orig)
    THEN NodeOf(graph.orig, Built.scalarConst).const ELSE NoConst
IsIdentity(c) == c.tag \in {"Int", "Double"} /\ c.val = <<1, 1>>

AddFilters == {"fuse_add_filter_v1", "fuse_add_filter_v2"}

\* the log has, at position k, a match of pattern family `fused` that its
\* guard judged with `verdict`
Judged(k, filters, fused, verdict) ==
    /\ k \in DOMAIN graph.log
    /\ graph.log[k].pattern.filter \in filters
    /\ graph.log[k].pattern.fused = fused
    /\ graph.log[k].pattern.verdict = verdict

\* C14: a convolution followed by an add whose alpha is not 1, followed by a
\* relu, never becomes a convolution_add_relu_run node; every
\* convolution_add_relu_run node replaced a match of the unguarded add+relu
\* pattern on a convolution_add_run node, and every convolution_add_run
\* node was made by a conv+add match that its guard accepted
C14_NonIdentityAddNotFused ==
    graph.op = "graph" =>
        /\ (HasTail({"add", "add_"}) /\ ~IsIdentity(OrigScalar)) =>
               /\ ~HasKind(graph.g, "ipex_prepack::convolution_add_relu_run")
               /\ ~HasKind(graph.g, "ipex_prepack::convolution_add_run")
        /\ \A n \in NodesOfKind(graph.g, "ipex_prepack::convolution_add_run") :
               \E k \in DOMAIN graph.log :
                   /\ Judged(k, AddFilters, "ipex_prepack::convolution_add_run", Accept)
                   /\ graph.log[k].pattern.res = n.id
        /\ \A n \in NodesOfKind(graph.g, "ipex_prepack::convolution_add_relu_run") :
               \E k \in DOMAIN graph.log :
                   /\ Judged(k, {NoFilter}, "ipex_prepack::convolution_add_relu_run", Accept)
                   /\ graph.log[k].pattern.res = n.id
                   /\ \E j \in 1..(k - 1) :
                          Judged(j, AddFilters, "ipex_prepack::convolution_add_run", Accept)

\* C14 witness: conv2d -> add(alpha = 2) -> relu went through the prepack
\* pass and fuseConvAddRelu; the guard rejected the match and the
\* convolution_run, add and relu nodes are still there
C14_ScaledAddReluKept ==
    /\ graph.op = "graph"
    /\ graph.passes = <<"insertPrePackedConv2dOp", "fuseConvAddRelu">>
    /\ ShapesKnown /\ ConvUsedOnce
    /\ HasTail({"add"}) /\ HasThen({"relu"}) /\ OrigScalar = IntConst(2)
    /\ \E k \in DOMAIN graph.log :
           Judged(k, AddFilters, "ipex_prepack::convolution_add_run", Reject)
    /\ HasKind(graph.g, "ipex_prepack::convolution_run")
    /\ HasKind(graph.g, "aten::add") /\ HasKind(graph.g, "aten::relu")
    /\ ~HasKind(graph.g, "ipex_prepack::convolution_add_relu_run")

\* with alpha = 1 the same graph is fused into convolution_add_relu_run
C14_IdentityAddReluFused ==
    /\ graph.op = "graph"
    /\ graph.passes = <<"insertPrePackedConv2dOp", "fuseConvAddRelu">>
    /\ HasTail({"add"}) /\ HasThen({"relu"}) /\ OrigScalar = IntConst(1)
    /\ HasKind(graph.g, "ipex_prepack::convolution_add_relu_run")
    /\ ~HasKind(graph.g, "aten::add") /\ ~HasKind(graph.g, "aten::relu")

\* the graph the passes were given, prepacked if the prepack pass has run
PrepackedOrig ==
    IF \E k \in DOMAIN graph.passes : graph.passes[k] = "insertPrePackedConv2dOp"
    THEN insertPrePackedConv2dOp(graph.orig) ELSE graph.orig

\* C15: a convolution_elu_run node exists only where filter_conv2d_elu
\* accepted a match whose input_scale is the constant 1.0 or 1, and then it
\* takes (input, alpha, scale, input_scale, packed weight); with any other
\* constant the match is rejected and, whatever passes run, the
\* convolution_run node and the elu node stay as the prepack pass left them
C15_EluFusedOnlyForIdentityScale ==
    graph.op = "graph" =>
        /\ \A n \in NodesOfKind(graph.g, "ipex_prepack::convolution_elu_run") :
               /\ HasTail({"elu", "elu_"}) /\ IsIdentity(OrigScalar)
               /\ \E k \in DOMAIN graph.log :
                      /\ Judged(k, {"filter_conv2d_elu"}, "ipex_prepack::convolution_elu_run", Accept)
                      /\ graph.log[k].pattern.res = n.id
               /\ Len(n.inputs) = 5 /\ RunsPacked(n, 5)
               /\ SubSeq(n.inputs, 2, 4) = SubSeq(OrigTail.inputs, 2, 4)
               /\ Built.tail \notin Ids(graph.g)
        /\ (HasTail({"elu", "elu_"}) /\ OrigScalar # NoConst /\ ~IsIdentity(OrigScalar)) =>
               /\ ~graph.thrown
               /\ graph.g = PrepackedOrig
               /\ \A k \in DOMAIN graph.log : graph.log[k].pattern.verdict = Reject
        /\ (/\ HasTail({"elu", "elu_"}) /\ IsIdentity(OrigScalar)
            /\ ShapesKnown /\ ConvUsedOnce
            /\ graph.passes = <<"insertPrePackedConv2dOp", "fuseConvWithEltwise">>) =>
               /\ Cardinality(NodesOfKind(graph.g, "ipex_prepack::convolution_elu_run")) = 1
               /\ ~HasKind(graph.g, "ipex_prepack::convolution_run")

\* C15 witness: conv2d -> elu_ with input_scale = 1.5 went through the
\* prepack pass and fuseConvWithEltwise; the guard rejected the match, the
\* elu_ node still consumes the convolution_run node
C15_ScaledEluKept ==
    /\ graph.op = "graph"
    /\ graph.passes = <<"insertPrePackedConv2dOp", "fuseConvWithEltwise">>
    /\ ShapesKnown /\ ConvUsedOnce
    /\ HasTail({"elu_"}) /\ OrigScalar = DoubleConst(3, 2)
    /\ \E k \in DOMAIN graph.log :
           Judged(k, {"filter_conv2d_elu"}, "ipex_prepack::convolution_elu_run", Reject)
    /\ Built.tail \in Ids(graph.g)
    /\ NodeOf(graph.g, NodeOf(graph.g, Built.tail).inputs[1]).kind = "ipex_prepack::convolution_run"
    /\ ~HasKind(graph.g, "ipex_prepack::convolution_elu_run")

\* with the integer constant 1 the elu is fused
C15_IntegerOneEluFused ==
    /\ graph.op = "graph"
    /\ graph.passes = <<"insertPrePackedConv2dOp", "fuseConvWithEltwise">>
    /\ HasTail({"elu"}) /\ OrigScalar = IntConst(1)
    /\ HasKind(graph.g, "ipex_prepack::convolution_elu_run")
    /\ ~HasKind(graph.g, "aten::elu")

\* the operand of the original add that is not the convolution's output
OtherOperand ==
    IF OrigTail.inputs[1] = Built.conv THEN OrigTail.inputs[2] ELSE OrigTail.inputs[1]

FusedAdds ==
    NodesOfKind(graph.g, "ipex_prepack::convolution_add_run")
    \cup NodesOfKind(graph.g, "ipex_prepack::convolution_add_relu_run")

\* C16: after the prepack pass and fuseConvAddRelu, add(conv_out, other, 1)
\* and add(other, conv_out, 1) have both become one fused node whose inputs
\* are (the convolution's input, other, alpha, the packed weight)
C16_BothOperandOrdersFuseAlike ==
    (/\ graph.op = "graph"
     /\ graph.passes = <<"insertPrePackedConv2dOp", "fuseConvAddRelu">>
     /\ ShapesKnown /\ ConvUsedOnce
     /\ HasTail({"add", "add_"}) /\ IsIdentity(OrigScalar)) =>
        /\ ~graph.thrown
        /\ Cardinality(FusedAdds) = 1
        /\ \A n \in FusedAdds :
               /\ Len(n.inputs) = 4 /\ RunsPacked(n, 4)
               /\ n.inputs[2] = OtherOperand
               /\ n.inputs[3] = OrigTail.inputs[3]
               /\ n.kind = IF HasThen({"relu", "relu_"})
                           THEN "ipex_prepack::convolution_add_relu_run"
                           ELSE "ipex_prepack::convolution_add_run"
        /\ ~HasKind(graph.g, "aten::add") /\ ~HasKind(graph.g, "aten::add_")
        /\ ~HasKind(graph.g, "ipex_prepack::convolution_run")

\* C16 witness: add(other, conv_out, 1), the convolution's output second,
\* was fused into convolution_add_run with `other` as the accumulator
C16_OtherFirstFused ==
    /\ graph.op = "graph"
    /\ graph.passes = <<"insertPrePackedConv2dOp", "fuseConvAddRelu">>
    /\ HasTail({"add"}) /\ OrigTail.inputs[2] = Built.conv /\ OrigScalar = IntConst(1)
    /\ \E n \in NodesOfKind(graph.g, "ipex_prepack::convolution_add_run") :
           /\ n.inputs[1] = Built.input
           /\ n.inputs[2] = Built.accumu /\ OrigTail.inputs[1] = Built.accumu
    /\ ~HasKind(graph.g, "aten::add")

PassesRun == { graph.passes[k] : k \in DOMAIN graph.passes }

\* C17: a convolution whose input sizes are unknown or not 4-d, or, for
\* aten::conv2d, whose weight sizes are unknown or not 4-d, is not
\* rewritten: after any passes the graph is the graph that was given, no
\* pattern has matched and nothing was thrown; a convolution_prepack or
\* convolution_run node exists only after the prepack pass ran on known
\* shapes, and then the convolution node itself is gone
C17_UnknownShapesLeaveConvolution ==
    graph.op = "graph" =>
        /\ ~ShapesKnown =>
               /\ graph.g = graph.orig
               /\ graph.log = <<>> /\ ~graph.thrown
        /\ (\/ HasKind(graph.g, "ipex_prepack::convolution_prepack")
            \/ HasKind(graph.g, "ipex_prepack::convolution_run")
            \/ Len(graph.g.nodes) > Len(graph.orig.nodes)) =>
               ShapesKnown /\ "insertPrePackedConv2dOp" \in PassesRun
        /\ (ShapesKnown /\ "insertPrePackedConv2dOp" \in PassesRun) =>
               /\ ~HasKind(graph.g, OrigConv.kind)
               /\ HasKind(graph.g, "ipex_prepack::convolution_prepack")

\* C17 witness: an aten::conv2d whose input is 4-d and whose weight is 5-d,
\* followed by relu, went through the three passes and is still there,
\* consumed by the relu
C17_WeightNot4dKept ==
    /\ graph.op = "graph"
    /\ graph.passes = <<"insertPrePackedConv2dOp", "fuseConvWithEltwise", "fuseConvAddRelu">>
    /\ OrigConv.kind = "aten::conv2d" /\ HasTail({"relu"})
    /\ RankOf(Built.input) = <<4>> /\ RankOf(Built.weight) = <<5>>
    /\ NodeOf(graph.g, Built.conv) = OrigConv
    /\ NodeOf(graph.g, Built.tail).inputs = <<Built.conv>>
    /\ ~HasKind(graph.g, "ipex_prepack::convolution_prepack")

\* torch_ipex::convolution_forward is rewritten whatever is known of its weight
C17_ForwardNeedsInputOnly ==
    /\ graph.op = "graph"
    /\ graph.passes = <<"insertPrePackedConv2dOp">>
    /\ OrigConv.kind = "torch_ipex::convolution_forward"
    /\ NodeOf(graph.orig, Built.weight).sizes = <<>>
    /\ HasKind(graph.g, "ipex_prepack::convolution_run")

Guards == {"filter_conv2d_elu", "fuse_add_filter_v1", "fuse_add_filter_v2"}

\* C19: a pass has thrown only if the last match judged was judged by a
\* guard that found no constant where it expects one (the graph's scalar
\* operand is no constant), and no other match was judged so; the elu guard
\* does throw on such a match; while no pattern has matched nothing is
\* thrown and the fusion passes have left the graph as it was
C19_ThrowsOnlyOnMissingConstant ==
    graph.op = "graph" =>
        /\ graph.thrown =>
               /\ graph.log # <<>>
               /\ graph.log[Len(graph.log)].pattern.verdict = Throw
               /\ graph.log[Len(graph.log)].pattern.filter \in Guards
               /\ graph.log[Len(graph.log)].pass = Len(graph.passes)
               /\ graph.passes[Len(graph.passes)] # "insertPrePackedConv2dOp"
               /\ OrigScalar = NoConst
               /\ HasTail({"elu", "elu_", "add", "add_"})
        /\ \A k \in DOMAIN graph.log :
               graph.log[k].pattern.verdict = Throw => (graph.thrown /\ k = Len(graph.log))
        /\ (/\ graph.passes = <<"insertPrePackedConv2dOp", "fuseConvWithEltwise">>
            /\ ShapesKnown /\ ConvUsedOnce
            /\ HasTail({"elu", "elu_"}) /\ Built.scalarConst \notin Ids(graph.orig)) =>
               graph.thrown
        /\ graph.log = <<>> => (~graph.thrown /\ graph.g = PrepackedOrig)

\* C19 witness: conv2d -> elu whose input_scale is a graph input, not a
\* constant: fuseConvWithEltwise matched it and the guard threw
C19_EluGuardThrew ==
    /\ graph.op = "graph"
    /\ graph.passes = <<"insertPrePackedConv2dOp", "fuseConvWithEltwise">>
    /\ HasTail({"elu"}) /\ OrigTail.inputs[4] = Built.scalarParam
    /\ graph.thrown
    /\ graph.log[Len(graph.log)].pattern.filter = "filter_conv2d_elu"
    /\ graph.log[Len(graph.log)].pattern.verdict = Throw

\* both fusion passes ran on a conv -> tanh graph, matched nothing and
\* returned the graph as the prepack pass made it
C19_NoMatchReturns ==
    /\ graph.op = "graph"
    /\ graph.passes = <<"insertPrePackedConv2dOp", "fuseConvWithEltwise", "fuseConvAddRelu">>
    /\ ShapesKnown /\ HasTail({"tanh"})
    /\ graph.log = <<>> /\ ~graph.thrown
    /\ graph.g = insertPrePackedConv2dOp(graph.orig)
    /\ HasKind(graph.g, "ipex_prepack::convolution_run") /\ HasKind(graph.g, "aten::tanh")

(***************************************************************************)
(* Specification SpecAutograd: forward calls of the two operators with     *)
(* gradient tracking enabled or disabled, and the backward calls the       *)
(* autograd engine makes.  PixelShuffleOp::apply gives the forward call a  *)
(* context and leaves a node on the tape; the engine runs the backward of  *)
(* a node once, with that context and a gradient of the shape of the       *)
(* forward call's output.  `calls` is the tape.                            *)
(***************************************************************************)
\* ctx->saved_data[key] of a key that was not saved is an empty IValue, and
\* toInt() / toIntList() of it throw
SavedDataMissing == Fail("saved_data holds no value under the key", <<>>)

\* PixelShuffleOp::backward
PixelShuffleOp_backward(ctx, grad_output, trap) ==
    LET read == {"upscale_factor", "input_sizes"}
    IN  [read |-> read,
         out |-> IF read \subseteq ctx.keys
                 THEN pixel_shuffle_backward_cpu(grad_output, ctx.input_sizes, ctx.factor, trap)
                 ELSE SavedDataMissing]

\* a backward that looks for the factor under the key of the other operator
PixelUnshuffleOp_backward_upscale_key(ctx, grad_output, trap) ==
    LET read == {"upscale_factor", "input_sizes"}
    IN  [read |-> read,
         out |-> IF read \subseteq ctx.keys
                 THEN pixel_unshuffle_backward_cpu(grad_output, ctx.input_sizes, ctx.factor, trap)
                 ELSE SavedDataMissing]

\* PixelUnshuffleOp::backward
PixelUnshuffleOp_backward(ctx, grad_output, trap) ==
    LET read == {"downscale_factor", "input_sizes"}
    IN  [read |-> read,
         out |-> IF read \subseteq ctx.keys
                 THEN pixel_unshuffle_backward_cpu(grad_output, ctx.input_sizes, ctx.factor, trap)
                 ELSE SavedDataMissing]

InitAutograd == InitShuffle

\* a tape entry: a forward call (of = 0, read = {}) or the backward call of
\* the forward call at position `of`
Tape(op, x, grad, out, of, read) ==
    /\ calls' = Append(calls, [op |-> op, in |-> x, grad |-> grad, out |-> out,
                               of |-> of, read |-> read])
    /\ UNCHANGED <<self, factor, pool, presult, kcall, kresult, divTraps, graph, par>>

PixelShuffleForward ==
    /\ Len(calls) < MaxTape
    /\ \E x \in Operands, grad \in BOOLEAN :
           Tape("pixel_shuffle", x, grad, pixel_shuffle(x, factor, grad, divTraps), 0, {})

PixelUnshuffleForward ==
    /\ Len(calls) < MaxTape
    /\ \E x \in Operands, grad \in BOOLEAN :
           Tape("pixel_unshuffle", x, grad, pixel_unshuffle(x, factor, grad, divTraps), 0, {})

\* the forward call at position k returned, has a context, and its backward
\* has not run
HasNode(k) ==
    /\ calls[k].of = 0 /\ calls[k].out.st = "ok"
    /\ calls[k].out.ctx # NoCtx
    /\ \A j \in DOMAIN calls : calls[j].of # k

\* the gradients the engine can hand to the backward of call k
GradsOf(k) ==
    { Labelled(calls[k].out.t.sizes, f) : f \in FormatsOf(calls[k].out.t.sizes) }

PixelShuffleOpBackward ==
    /\ Len(calls) < MaxTape
    /\ \E k \in DOMAIN calls, trap \in {divTraps} :
           /\ HasNode(k) /\ calls[k].op = "pixel_shuffle"
           /\ \E g \in GradsOf(k) :
                  LET b == PixelShuffleOp_backward(calls[k].out.ctx, g, trap)
                  IN  Tape("PixelShuffleOp::backward", g, FALSE, b.out, k, b.read)

PixelUnshuffleOpBackward ==
    /\ Len(calls) < MaxTape
    /\ \E k \in DOMAIN calls, trap \in {divTraps} :
           /\ HasNode(k) /\ calls[k].op = "pixel_unshuffle"
           /\ \E g \in GradsOf(k) :
                  LET b == PixelUnshuffleOp_backward(calls[k].out.ctx, g, trap)
                  IN  Tape("PixelUnshuffleOp::backward", g, FALSE, b.out, k, b.read)

NextAutograd ==
    \/ PixelShuffleForward
    \/ PixelUnshuffleForward
    \/ PixelShuffleOpBackward
    \/ PixelUnshuffleOpBackward

SpecAutograd == InitAutograd /\ [][NextAutograd]_vars

(***************************************************************************)
(* Properties of the autograd context (checked under SpecAutograd).        *)
(***************************************************************************)
Forwards == { k \in DOMAIN calls : calls[k].of = 0 }
Backwards == { k \in DOMAIN calls : calls[k].of # 0 }

FactorKey(op) == IF op = "pixel_shuffle" THEN "upscale_factor" ELSE "downscale_factor"
BackwardOf(op) == IF op = "pixel_shuffle" THEN "PixelShuffleOp::backward"
                  ELSE "PixelUnshuffleOp::backward"

\* C18: on every tape, a forward call that returned with gradient tracking
\* enabled saved its factor and its input's sizes under the operator's two
\* keys, and a forward call made with tracking disabled saved nothing;
\* every backward call belongs to an earlier forward call of the same
\* operator that was made with tracking enabled, reads exactly the keys
\* that call saved, and the gradient it returns has the sizes of that
\* call's input
C18_BackwardOnlyOverSavedContext ==
    /\ \A k \in Forwards :
           /\ (calls[k].grad /\ calls[k].out.st = "ok") =>
                  /\ calls[k].out.ctx.keys = {FactorKey(calls[k].op), "input_sizes"}
                  /\ calls[k].out.ctx.factor = factor
                  /\ calls[k].out.ctx.input_sizes = calls[k].in.sizes
           /\ ~calls[k].grad => calls[k].out.ctx = NoCtx
    /\ \A b \in Backwards :
           LET f == calls[calls[b].of]
           IN  /\ calls[b].of < b /\ calls[b].of \in Forwards
               /\ f.grad /\ f.out.st = "ok"
               /\ calls[b].op = BackwardOf(f.op)
               /\ calls[b].read = f.out.ctx.keys
               /\ calls[b].out.st # "ok" => calls[b].out.msg # SavedDataMissing.msg
               /\ calls[b].out.st = "ok" => calls[b].out.t.sizes = f.in.sizes
               /\ \A c \in Backwards : calls[c].of = calls[b].of => c = b

\* C18 witness: a shuffle made without tracking, then an unshuffle made
\* with tracking, then the backward of the unshuffle, which returned a
\* gradient of the sizes of the unshuffle's input; the shuffle left no node
C18_BackwardOfTrackedUnshuffle ==
    /\ Len(calls) = 3
    /\ calls[1].op = "pixel_shuffle" /\ ~calls[1].grad /\ calls[1].out.st = "ok"
    /\ calls[2].op = "pixel_unshuffle" /\ calls[2].grad /\ calls[2].out.st = "ok"
    /\ calls[3].op = "PixelUnshuffleOp::backward" /\ calls[3].of = 2
    /\ calls[3].read = {"downscale_factor", "input_sizes"}
    /\ calls[3].out.st = "ok"
    /\ calls[3].out.t.sizes = calls[2].in.sizes
    /\ calls[3].out.t.data # <<>>
    /\ factor = 2

\* a backward that did not return: the gradient came in a layout no kernel
\* handles
C18_BackwardRejectedLayout ==
    /\ Backwards # {}
    /\ \E b \in Backwards : calls[b].out.st = "error"

(***************************************************************************)
(* Specification SpecParallel: the parallel region of the pooling backward *)
(* kernels.  at::parallel_for(0, range, 0, f) cuts [0, range) into         *)
(* contiguous chunks [begin, end) and runs f on them concurrently; every   *)
(* chunk runs the loops over oh and ow for each of its units (a channel    *)
(* plane in the packed kernel, a batch item in the channel-last kernel).   *)
(* An iteration adds to the window's elements of the shared grad_input     *)
(* buffer in two steps, the loads and the stores, between which the other  *)
(* chunks may run.                                                         *)
(***************************************************************************)
\* a parallel range over the rows of the output: a unit is one row oh of
\* one plane
ParallelFor_over_rows(fmt, grad_input_sizes, output_height, output_width) ==
    [range |-> grad_input_sizes[1] * output_height, per |-> output_width]

\* the range of at::parallel_for and the (oh, ow) iterations of one unit of
\* it.  packed: parallel on dim of N, C; channel-last: parallel on dim N
ParallelFor(fmt, grad_input_sizes, output_height, output_width) ==
    [range |-> IF fmt = "Contiguous"
               THEN (IF Len(grad_input_sizes) = 3 THEN grad_input_sizes[1]
                     ELSE grad_input_sizes[1] * grad_input_sizes[2])
               ELSE grad_input_sizes[1],
     per |-> output_height * output_width]

\* the elements of set S in increasing order
SortedSeq(S) ==
    CHOOSE q \in [1..Cardinality(S) -> S] : \A i, j \in 1..Cardinality(S) : i < j => q[i] < q[j]

\* the chunks [begin, end) that the cut points make of [0, range); j is the
\* chunk's next iteration, seen what its pending iteration has loaded
Chunks(range, cuts, per) ==
    LET edge == SortedSeq(cuts \cup {0, range})
    IN  [i \in 1..(Len(edge) - 1) |->
            [begin |-> edge[i], end |-> edge[i + 1], j |-> edge[i] * per, seen |-> <<>>]]

\* iteration j of the kernel's loops, run on buffer buf
Iteration(p, j, buf) ==
    IF p.fmt = "Contiguous"
    THEN AvgPoolBackwardLoop(p.scalar_t, j, j + 1, p.a, p.output_height, p.output_width,
                             p.grad_output, PoolOk(buf, {}, FALSE)).data
    ELSE AvgPoolBackwardCLLoop(p.scalar_t, j, j + 1, p.a, p.channels, p.output_height,
                               p.output_width, p.vec_size, p.grad_output,
                               PoolOk(buf, {}, FALSE)).data

ParShapes(fmt) ==
    IF fmt = "Contiguous"
    THEN { <<c, h, w>> : c \in 1..MaxChunks, h \in 2..MaxParSide, w \in 2..MaxParSide }
    ELSE { <<n, 2, h, w>> : n \in 1..MaxChunks, h \in 2..MaxParSide, w \in 2..MaxParSide }

\* the region as the kernel enters it: grad_input is zero
Region(fmt, sizes, k, d, pad, count_include_pad, cuts) ==
    LET a == PoolArgs(k, k, d, d, pad, pad, count_include_pad, <<>>,
                      SizeNeg(sizes, 2), SizeNeg(sizes, 1))
        output_height == pooling_output_shape(a.input_height, k, pad, d, 1, FALSE)
        output_width == pooling_output_shape(a.input_width, k, pad, d, 1, FALSE)
        out_sizes == SubSeq(sizes, 1, Len(sizes) - 2) \o <<output_height, output_width>>
        grad_output == Filled(out_sizes, fmt, "Float", "index")
        grad_input == ZeroTensor(sizes, fmt, "Float")
        pf == ParallelFor(fmt, sizes, output_height, output_width)
        whole == IF fmt = "Contiguous"
                 THEN cpu_avg_pool_backward("Float", grad_input, grad_output, k, k, d, d,
                                            pad, pad, count_include_pad, <<>>)
                 ELSE cpu_avg_pool_backward_channels_last(
                          "Float", grad_input, grad_output, k, k, d, d, pad, pad,
                          count_include_pad, <<>>, VecSize("Float", MaxLane))
    IN  [op |-> "backward", fmt |-> fmt, scalar_t |-> "Float", a |-> a,
         channels |-> IF fmt = "Contiguous" THEN 1 ELSE sizes[2],
         vec_size |-> VecSize("Float", MaxLane),
         output_height |-> output_height, output_width |-> output_width,
         grad_output |-> grad_output.data,
         data |-> grad_input.data,
         writers |-> [e \in 1..Len(grad_input.data) |-> {}],
         range |-> pf.range, per |-> pf.per,
         chunks |-> Chunks(pf.range, cuts, pf.per),
         serial |-> whole.data]

InitParallel ==
    /\ \E fmt \in {"Contiguous", "ChannelsLast"}, d \in 1..MaxParKernel, pad \in 0..1,
          count_include_pad \in BOOLEAN :
         \E sizes \in ParShapes(fmt) :
           LET output_height == pooling_output_shape(SizeNeg(sizes, 2), MaxParKernel, pad, d, 1, FALSE)
               output_width == pooling_output_shape(SizeNeg(sizes, 1), MaxParKernel, pad, d, 1, FALSE)
               range == ParallelFor(fmt, sizes, output_height, output_width).range
           IN  \E cuts \in SUBSET (1..(range - 1)) :
                   /\ Cardinality(cuts) < MaxChunks
                   /\ pad = 1 => d > 1
                   /\ par = Region(fmt, sizes, MaxParKernel, d, pad, count_include_pad, cuts)
    /\ self = NoTensor /\ factor = 1 /\ calls = <<>>
    /\ pool = PoolIdle /\ presult = PoolIdle
    /\ kcall = KernelIdle /\ kresult = KernelIdle
    /\ divTraps = FALSE
    /\ graph = GraphIdle

Running(i) ==
    /\ par.op = "backward"
    /\ i \in DOMAIN par.chunks
    /\ par.chunks[i].j < par.chunks[i].end * par.per

\* the elements iteration j adds to: grad_output holds no zero, so they are
\* the elements the iteration changes
Touched(p, j) ==
    LET zeros == [e \in DOMAIN p.data |-> Zero]
        new == Iteration(p, j, zeros)
    IN  { e \in DOMAIN zeros : new[e] # Zero }

\* chunk i loads the elements its next iteration adds to
ChunkLoad ==
    /\ \E i \in DOMAIN par.chunks :
           /\ Running(i) /\ par.chunks[i].seen = <<>>
           /\ LET touched == Touched(par, par.chunks[i].j)
              IN  par' = [par EXCEPT !.chunks[i].seen =
                             [at |-> touched,
                              data |-> [e \in DOMAIN par.data |->
                                           IF e \in touched THEN par.data[e] ELSE Zero]]]
    /\ UNCHANGED <<self, factor, calls, pool, presult, kcall, kresult, divTraps, graph>>

\* chunk i stores the sums of its iteration and goes to the next one
ChunkStore ==
    /\ \E i \in DOMAIN par.chunks :
           /\ Running(i) /\ par.chunks[i].seen # <<>>
           /\ LET seen == par.chunks[i].seen
                  new == Iteration(par, par.chunks[i].j, seen.data)
                  stored == seen.at
              IN  par' = [par EXCEPT
                             !.data = [e \in DOMAIN par.data |->
                                          IF e \in stored THEN new[e] ELSE par.data[e]],
                             !.writers = [e \in DOMAIN par.writers |->
                                             IF e \in stored THEN par.writers[e] \cup {i}
                                             ELSE par.writers[e]],
                             !.chunks[i].j = par.chunks[i].j + 1,
                             !.chunks[i].seen = <<>>]
    /\ UNCHANGED <<self, factor, calls, pool, presult, kcall, kresult, divTraps, graph>>

NextParallel ==
    \/ ChunkLoad
    \/ ChunkStore

SpecParallel == InitParallel /\ [][NextParallel]_vars

(***************************************************************************)
(* Properties of the parallel region (checked under SpecParallel).         *)
(***************************************************************************)
Joined == par.op = "backward" /\ \A i \in DOMAIN par.chunks : ~Running(i)
WindowsOverlap == par.a.dH < par.a.kH

\* C20: however [0, range) is cut into chunks and however the chunks'
\* steps interleave, no element of grad_input is stored by two chunks, and
\* when the chunks have joined grad_input is what the kernel computes
\* without concurrency
C20_ChunksWriteDisjointElements ==
    par.op = "backward" =>
        /\ \A e \in DOMAIN par.writers : Cardinality(par.writers[e]) <= 1
        /\ Joined => par.data = par.serial

\* C20 witness: three chunks of the channel-last kernel, one batch item
\* each, have joined; the windows overlap and every element was stored
C20_OverlappingWindowsJoined ==
    /\ Joined /\ WindowsOverlap
    /\ par.fmt = "ChannelsLast" /\ Len(par.chunks) = 3
    /\ \A e \in DOMAIN par.writers : Cardinality(par.writers[e]) = 1
    /\ \E e \in DOMAIN par.writers : par.writers[e] = {3}
    /\ par.data = par.serial

\* two chunks of the packed kernel both between their loads and stores
C20_TwoChunksMidIteration ==
    /\ par.op = "backward" /\ par.fmt = "Contiguous" /\ WindowsOverlap
    /\ Len(par.chunks) >= 2
    /\ par.chunks[1].seen # <<>> /\ par.chunks[2].seen # <<>>
    /\ par.chunks[1].j > par.chunks[1].begin * par.per

(***************************************************************************)
(* Specification SpecForward: the parallel region of the forward kernels   *)
(* cpu_pixel_shuffle, cpu_avg_pool and cpu_avg_pool_channels_last.         *)
(* at::parallel_for(0, range, 0, f) cuts [0, range) into contiguous chunks *)
(* [begin, end); a chunk first calls data_index_init(begin, ...) and then  *)
(* runs its iterations i = begin .. end - 1, each of which ends with a     *)
(* data_index_step.  The chunks' steps interleave freely.                  *)
(***************************************************************************)
\* the extents and strides cpu_pixel_shuffle hands to the index enumerator
\* and to the input offset, in the order n, c, h, s1, w, s2
ShuffleIndexing(sizes, upscale_factor) ==
    LET channels == SizeNeg(sizes, 3)
        height == SizeNeg(sizes, 2)
        width == SizeNeg(sizes, 1)
        S == upscale_factor
        sub_channels == channels \div (S * S)
        nbatch == Prod(sizes) \div (channels * height * width)
    IN  [X |-> <<nbatch, sub_channels, height, S, width, S>>,
         strides |-> <<channels * height * width, S * S * height * width,
                       width, S * height * width, 1, height * width>>]

\* the early exit of the pooling loops that keeps the coordinates
EmptyWindowExit_keeps_index(idx, X) == idx

\* `if (ih0 >= ih1 || iw0 >= iw1) { data_index_step(...); continue; }`
EmptyWindowExit(idx, X) == data_index_step(idx, X)

\* the coordinates a chunk holds after one iteration
IndexAfter(p, idx) ==
    IF p.kernel # "shuffle" /\ WindowOf(idx[2], idx[3], p.a).empty
    THEN EmptyWindowExit(idx, p.X)
    ELSE data_index_step(idx, p.X)

\* iteration i of the kernel's loop with coordinates idx, run on buffer buf
ForwardIteration(p, i, idx, buf) ==
    IF p.kernel = "shuffle"
    THEN CopyLoop(i, i + 1, idx, p.X, p.strides, p.src, buf)
    ELSE IF p.kernel = "pool"
    THEN AvgPoolLoop("Float", i, i + 1, idx, p.X, p.a, p.src,
                     PoolOk(buf, {}, FALSE)).data
    ELSE AvgPoolCLLoop("Float", i, i + 1, idx, p.X, p.a, p.channels, p.vec_size,
                       p.src, PoolOk(buf, {}, FALSE)).data

\* the chunks of the forward region: i is the chunk's loop variable, idx
\* its coordinates (none before data_index_init)
ForwardChunks(range, cuts) ==
    LET edge == SortedSeq(cuts \cup {0, range})
    IN  [c \in 1..(Len(edge) - 1) |->
            [begin |-> edge[c], end |-> edge[c + 1], i |-> edge[c], idx |-> <<>>]]

ForwardRegion(kernel, X, strides, a, channels, src, out, serial, cuts) ==
    [op |-> "forward", kernel |-> kernel, X |-> X, strides |-> strides, a |-> a,
     channels |-> channels, vec_size |-> VecSize("Float", MaxLane),
     src |-> src, data |-> out,
     writers |-> [e \in 1..Len(out) |-> {}],
     range |-> Prod(X), chunks |-> ForwardChunks(Prod(X), cuts),
     serial |-> serial]

\* the region of cpu_pixel_shuffle on an input of the given sizes
ShuffleRegion(sizes, cuts) ==
    LET g == ShuffleIndexing(sizes, MaxFactor)
        input == Labelled(sizes, "Contiguous")
        output == EmptyTensor(ShuffledSizes(sizes, MaxFactor), "Contiguous", "Float")
    IN  ForwardRegion("shuffle", g.X, g.strides, <<>>, 1, input.data, output.data,
                      cpu_pixel_shuffle(output, input, MaxFactor, FALSE).data, cuts)

\* the region of a pooling kernel: the kernel is entered through its stub
\* with the output tensor the caller allocated
PoolRegion(fmt, lead, side, d, out_h, out_w, cuts) ==
    LET sizes == lead \o <<side, side>>
        out_sizes == lead \o <<out_h, out_w>>
        input == Filled(sizes, fmt, "Float", "index")
        output == [EmptyTensor(out_sizes, fmt, "Float") EXCEPT
                      !.data = [k \in 1..Prod(out_sizes) |-> Num(Junk)]]
        a == PoolArgs(MaxParKernel, MaxParKernel, d, d, 0, 0, TRUE, <<>>, side, side)
    IN  IF fmt = "Contiguous"
        THEN ForwardRegion("pool", <<lead[1], out_h, out_w>>, <<>>, a, 1,
                           input.data, output.data,
                           cpu_avg_pool("Float", output, input, MaxParKernel,
                                        MaxParKernel, d, d, 0, 0, TRUE, <<>>).data,
                           cuts)
        ELSE ForwardRegion("pool_cl", <<lead[1], out_h, out_w>>, <<>>, a, lead[2],
                           input.data, output.data,
                           cpu_avg_pool_channels_last(
                               "Float", output, input, MaxParKernel, MaxParKernel,
                               d, d, 0, 0, TRUE, <<>>,
                               VecSize("Float", MaxLane)).data,
                           cuts)

\* the cut points of at most MaxChunks chunks of [0, range)
CutsOf(range) == { cuts \in SUBSET (1..(range - 1)) : Cardinality(cuts) < MaxChunks }

\* the shapes of the regions: the input sizes of the shuffle; the leading
\* sizes, the stride and the output height and width of the poolings
ShuffleRegionShapes ==
    { <<1, MaxFactor * MaxFactor, h, w>> : h \in 1..MaxFwdSide, w \in 1..MaxFwdSide }

PoolRegionShapes ==
    { <<fmt, lead, d, oh, ow>> :
          fmt \in {"Contiguous", "ChannelsLast"},
          lead \in { <<c>> : c \in 1..MaxFwdSide }
                   \cup { <<n, MaxFwdChan>> : n \in 1..MaxFwdSide },
          d \in 1..MaxParKernel, oh \in 1..MaxFwdSide, ow \in 1..MaxFwdSide }

ForwardRegions ==
    UNION { { ShuffleRegion(s, cuts) : cuts \in CutsOf(Prod(s)) } :
                s \in ShuffleRegionShapes }
    \cup UNION { { PoolRegion(s[1], s[2], MaxFwdSide, s[3], s[4], s[5], cuts) :
                       cuts \in CutsOf(s[2][1] * s[4] * s[5]) } :
                     s \in { q \in PoolRegionShapes :
                                 Len(q[2]) = (IF q[1] = "Contiguous" THEN 1 ELSE 2) } }

InitForward ==
    /\ par \in ForwardRegions
    /\ self = NoTensor /\ factor = 1 /\ calls = <<>>
    /\ pool = PoolIdle /\ presult = PoolIdle
    /\ kcall = KernelIdle /\ kresult = KernelIdle
    /\ divTraps = FALSE
    /\ graph = GraphIdle

Entered(c) == par.chunks[c].idx # <<>>

Iterating(c) == Entered(c) /\ par.chunks[c].i < par.chunks[c].end

\* the elements of the output an iteration stores: the buffer the kernel is
\* given holds junk, and no iteration stores junk
Stored(p, i, idx) ==
    LET none == IF p.kernel = "shuffle" THEN Junk ELSE Num(Junk)
        junk == [e \in DOMAIN p.data |-> none]
        new == ForwardIteration(p, i, idx, junk)
    IN  { e \in DOMAIN junk : new[e] # none }

\* chunk c enters f(begin, end): data_index_init(begin, ...)
ChunkBegin ==
    /\ par.op = "forward"
    /\ \E c \in DOMAIN par.chunks :
           /\ ~Entered(c)
           /\ par' = [par EXCEPT !.chunks[c].idx =
                                     data_index_init(par.chunks[c].begin, par.X)]
    /\ UNCHANGED <<self, factor, calls, pool, presult, kcall, kresult, divTraps, graph>>

\* chunk c runs one iteration of its loop
ChunkIterate ==
    /\ par.op = "forward"
    /\ \E c \in DOMAIN par.chunks :
           /\ Iterating(c)
           /\ LET i == par.chunks[c].i
                  idx == par.chunks[c].idx
                  stored == Stored(par, i, idx)
              IN  par' = [par EXCEPT
                             !.data = ForwardIteration(par, i, idx, par.data),
                             !.writers = [e \in DOMAIN par.writers |->
                                             IF e \in stored THEN par.writers[e] \cup {c}
                                             ELSE par.writers[e]],
                             !.chunks[c].i = i + 1,
                             !.chunks[c].idx = IndexAfter(par, idx)]
    /\ UNCHANGED <<self, factor, calls, pool, presult, kcall, kresult, divTraps, graph>>

NextForward ==
    \/ ChunkBegin
    \/ ChunkIterate

SpecForward == InitForward /\ [][NextForward]_vars

(***************************************************************************)
(* Properties of the forward region (checked under SpecForward).           *)
(***************************************************************************)
\* the mixed-radix digits of k for the extents X, the last extent fastest
MixedRadix(k, X) ==
    [d \in 1..Len(X) |-> (k \div Prod(SubSeq(X, d + 1, Len(X)))) % X[d]]

ForwardJoined ==
    par.op = "forward" /\ \A c \in DOMAIN par.chunks : Entered(c) /\ ~Iterating(c)

\* the output elements of the flat indices [begin, end) of a chunk
OwnElements(p, c) ==
    { e \in DOMAIN p.data :
          /\ e - 1 >= p.chunks[c].begin * p.channels
          /\ e - 1 < p.chunks[c].end * p.channels }

\* C21: however [0, numel) is cut into chunks and however the chunks
\* interleave, every chunk stores only the output elements of its own
\* range, at every iteration i its coordinates are the mixed-radix digits
\* of i (after an empty-window early exit too), and when the chunks have
\* joined the output is what a single sequential chunk produces
C21_ChunksMatchSequentialRun ==
    par.op = "forward" =>
        /\ \A c \in DOMAIN par.chunks :
               Iterating(c) => par.chunks[c].idx = MixedRadix(par.chunks[c].i, par.X)
        /\ \A e \in DOMAIN par.writers :
               \A c \in par.writers[e] : e \in OwnElements(par, c)
        /\ ForwardJoined => par.data = par.serial

\* C21 witness: three chunks of the packed pooling kernel have joined; the
\* third chunk began after an empty window of the second and stored its
\* elements
C21_JoinedAfterEmptyWindow ==
    /\ ForwardJoined /\ par.kernel = "pool" /\ Len(par.chunks) = 3
    /\ \E i \in par.chunks[2].begin..(par.chunks[2].end - 2) :
           WindowOf(MixedRadix(i, par.X)[2], MixedRadix(i, par.X)[3], par.a).empty
    /\ \E e \in DOMAIN par.writers : par.writers[e] = {3}
    /\ par.data = par.serial

\* a chunk of the shuffle kernel that does not start at 0 is in its loop
\* while an earlier chunk has not entered yet
C21_LaterChunkRunsFirst ==
    /\ par.op = "forward" /\ par.kernel = "shuffle" /\ Len(par.chunks) >= 2
    /\ ~Entered(1) /\ Iterating(2)
    /\ par.chunks[2].i > par.chunks[2].begin

(***************************************************************************)
(* Specification SpecIndex: the index enumerator on its own.  A chunk      *)
(* declares its coordinates as zeros, initialises them at a flat offset    *)
(* and then steps them; the flat offset k counts on past the last          *)
(* coordinate, where the enumerator wraps.                                 *)
(***************************************************************************)
\* the tuples of extents, each extent at least 1
ExtentTuples ==
    UNION { [1..r -> 1..MaxExtent] : r \in 1..MaxRank }

Enumerator(X, k, idx, last) ==
    [op |-> "index", X |-> X, k |-> k, idx |-> idx, last |-> last]

InitIndex ==
    /\ \E X \in ExtentTuples : par = Enumerator(X, 0, [d \in 1..Len(X) |-> 0], "declared")
    /\ self = NoTensor /\ factor = 1 /\ calls = <<>>
    /\ pool = PoolIdle /\ presult = PoolIdle
    /\ kcall = KernelIdle /\ kresult = KernelIdle
    /\ divTraps = FALSE
    /\ graph = GraphIdle

\* data_index_init(begin, ...) at the start of a chunk
DataIndexInit ==
    /\ par.op = "index" /\ par.last = "declared"
    /\ \E begin \in 0..(Prod(par.X) - 1) :
           par' = Enumerator(par.X, begin, data_index_init(begin, par.X), "init")
    /\ UNCHANGED <<self, factor, calls, pool, presult, kcall, kresult, divTraps, graph>>

\* data_index_step(...) at the end of an iteration
DataIndexStep ==
    /\ par.op = "index" /\ par.last # "declared"
    /\ par.k + 1 < MaxLaps * Prod(par.X)
    /\ par' = Enumerator(par.X, par.k + 1, data_index_step(par.idx, par.X), "step")
    /\ UNCHANGED <<self, factor, calls, pool, presult, kcall, kresult, divTraps, graph>>

NextIndex ==
    \/ DataIndexInit
    \/ DataIndexStep

SpecIndex == InitIndex /\ [][NextIndex]_vars

(***************************************************************************)
(* Properties of the index enumerator (checked under SpecIndex).           *)
(***************************************************************************)
\* C22: initialised at k the coordinates are the mixed-radix digits of k,
\* the last extent fastest; a step from the digits of k gives the digits of
\* k + 1, carrying into the next slower digit; the step from the last
\* coordinate gives all zeros; every coordinate stays in [0, extent)
C22_EnumeratorCountsInMixedRadix ==
    par.op = "index" =>
        /\ par.idx = MixedRadix(par.k % Prod(par.X), par.X)
        /\ par.k % Prod(par.X) = 0 => \A d \in DOMAIN par.idx : par.idx[d] = 0
        /\ \A d \in DOMAIN par.idx : par.idx[d] >= 0 /\ par.idx[d] < par.X[d]

\* C22 witness: a step has carried through two digits into the slowest one
\* of three, and later the enumerator has wrapped to zeros
C22_CarriedThroughTwoDigits ==
    /\ par.op = "index" /\ par.last = "step" /\ Len(par.X) = 3
    /\ par.X = <<2, 3, 2>> /\ par.idx = <<1, 0, 0>> /\ par.k = 6

C22_WrappedToZeros ==
    /\ par.op = "index" /\ par.last = "step" /\ Len(par.X) = 3
    /\ par.k = Prod(par.X) /\ Prod(par.X) > 4
    /\ \A d \in DOMAIN par.idx : par.idx[d] = 0

C22_InitialisedMidRange ==
    /\ par.op = "index" /\ par.last = "init"
    /\ par.X = <<3, 2, 3>> /\ par.k = 11 /\ par.idx = <<1, 1, 2>>

(***************************************************************************)
(* The packed forward shuffle, element by element (checked under           *)
(* SpecShuffle).                                                           *)
(***************************************************************************)
\* [(B1...Bn), C, H, W] => [N, C, H, W]
Flat4(sizes) ==
    << Prod(Leading(sizes)), SizeNeg(sizes, 3), SizeNeg(sizes, 2), SizeNeg(sizes, 1) >>

\* the element of the packed tensor t at the logical coordinate (n, c, h, w)
PackedAt(t, n, c, h, w) ==
    ReadAt(t.data, OffsetOf("Contiguous", Flat4(t.sizes), n, c, h, w))

\* the calls of pixel_shuffle on a valid packed tensor
PackedShuffles ==
    { k \in 1..Len(calls) :
          /\ calls[k].op = "pixel_shuffle"
          /\ ValidShuffleArgs(calls[k].in, factor)
          /\ calls[k].in.fmt = "Contiguous" }

\* C23: in the packed forward shuffle, for all n, c, h, w and s1, s2 in
\* [0, F), output[n, c, h*F + s1, w*F + s2] = input[n, c*F^2 + s1*F + s2, h, w];
\* no element comes from outside the input and the output holds every
\* input element exactly once
C23_PackedShuffleIsBijection ==
    \A k \in PackedShuffles :
        LET x == calls[k].in
            y == calls[k].out
            s == Flat4(x.sizes)
            F == factor
        IN  /\ \A n \in 0..(s[1] - 1), c \in 0..((s[2] \div (F * F)) - 1),
                  h \in 0..(s[3] - 1), w \in 0..(s[4] - 1),
                  s1 \in 0..(F - 1), s2 \in 0..(F - 1) :
                   /\ y.st = "ok"
                   /\ PackedAt(y.t, n, c, h * F + s1, w * F + s2)
                          = PackedAt(x, n, c * F * F + s1 * F + s2, h, w)
            /\ y.st = "ok" =>
                   /\ \A e \in DOMAIN y.t.data : y.t.data[e] # Junk
                   /\ \A e \in DOMAIN x.data :
                          Cardinality({ o \in DOMAIN y.t.data : y.t.data[o] = x.data[e] }) = 1

\* C23 witness: a packed shuffle by 2 of a batch of two with two
\* sub-channels and a plane wider than one element has moved elements
C23_BatchOfTwoShuffled ==
    \E k \in PackedShuffles :
        /\ factor = 2 /\ calls[k].out.st = "ok"
        /\ Flat4(calls[k].in.sizes)[1] = 2 /\ Flat4(calls[k].in.sizes)[2] = 8
        /\ Flat4(calls[k].in.sizes)[4] = 2
        /\ calls[k].out.t.data # calls[k].in.data
        /\ PackedAt(calls[k].out.t, 1, 1, 1, 3) = PackedAt(calls[k].in, 1, 7, 0, 1)

(***************************************************************************)
(* The channel loops of the channel-last forward kernels (checked under    *)
(* SpecKernel).                                                            *)
(***************************************************************************)
\* the clamped window of an output row or column o
KLo(o, d, pad) == Max(o * d - pad, 0)
KHi(o, d, pad, k, in) == Min(o * d - pad + k, in)

\* the divisor of output location (oh, ow) of the kernel call
KDivisor(oh, ow) ==
    LET inH == SizeNeg(kcall.sizes, 2)
        inW == SizeNeg(kcall.sizes, 1)
    IN  IF kcall.divisor_override # <<>> THEN kcall.divisor_override[1]
        ELSE IF kcall.count_include_pad
        THEN (Min(oh * kcall.dH - kcall.padH + kcall.kH, inH + kcall.padH)
                  - (oh * kcall.dH - kcall.padH))
             * (Min(ow * kcall.dW - kcall.padW + kcall.kW, inW + kcall.padW)
                  - (ow * kcall.dW - kcall.padW))
        ELSE (KHi(oh, kcall.dH, kcall.padH, kcall.kH, inH) - KLo(oh, kcall.dH, kcall.padH))
             * (KHi(ow, kcall.dW, kcall.padW, kcall.kW, inW) - KLo(ow, kcall.dW, kcall.padW))

\* the sum of plane (n, c) of the kernel's input over the clamped window
KWindowSum(n, c, oh, ow) ==
    LET r0 == KLo(oh, kcall.dH, kcall.padH)
        c0 == KLo(ow, kcall.dW, kcall.padW)
        R == KHi(oh, kcall.dH, kcall.padH, kcall.kH, SizeNeg(kcall.sizes, 2)) - r0
        C == KHi(ow, kcall.dW, kcall.padW, kcall.kW, SizeNeg(kcall.sizes, 1)) - c0
    IN  SumSeq([k \in 1..(R * C) |->
                   Elem(KInput, n, c, r0 + (k - 1) \div C, c0 + ((k - 1) % C))])

\* the lane widths of the passes of the kernel that ran: Vec::size() for
\* the three passes, or fVec::size() for pass I and bVec::size() for II, III
PassWidths ==
    IF kcall.dtype = "BFloat16"
    THEN {kcall.fvec_size, VecSize("BFloat16", kcall.fvec_size)}
    ELSE {VecSize(kcall.dtype, kcall.fvec_size)}

\* the offsets ds are the channel indices 0 .. C - 1, each once
EachChannelOnce(ds, C) ==
    /\ Len(ds) = C
    /\ { ds[k] : k \in DOMAIN ds } = 0..(C - 1)

ChannelLastRan ==
    kresult.op \in {"cpu_avg_pool_channels_last", "cpu_avg_pool_channels_last<BFloat16>"}

\* C24: in the channel-last forward kernels, for every channel count C and
\* lane width L, the vector loop and the scalar tail of each pass touch the
\* channel indices 0 .. C - 1 once each and none beyond, and the
\* accumulator starts from zero at every output location: each output
\* element is the quotient of its own window's sum, with nothing carried
\* over from the location before
C24_LanesCoverChannelsFromZero ==
    ChannelLastRan =>
        /\ \A L \in PassWidths :
               EachChannelOnce(Lanes(kcall.sizes[2], kcall.sizes[2] - (kcall.sizes[2] % L), L),
                               kcall.sizes[2])
        /\ kresult.r.st = "ok"
        /\ \A n \in Batches(kresult.t), c \in Channels(kresult.t),
              oh \in Rows(kresult.t), ow \in Cols(kresult.t) :
               Elem(kresult.t, n, c, oh, ow)
                   = IF KEmptyWindow(oh, ow) THEN Zero
                     ELSE Divide(kcall.dtype, KWindowSum(n, c, oh, ow), KDivisor(oh, ow))

\* C24 witness: the reduced-precision kernel ran on 3 channels with 2 wide
\* and 4 narrow lanes (fewer channels than narrow lanes) over several
\* locations with non-empty windows
C24_FewerChannelsThanLanes ==
    /\ kresult.op = "cpu_avg_pool_channels_last<BFloat16>"
    /\ kcall.sizes[2] = 3 /\ kcall.fvec_size = 2
    /\ kcall.output_height * kcall.output_width > 1
    /\ \A oh \in Rows(kresult.t), ow \in Cols(kresult.t) : ~KEmptyWindow(oh, ow)
    /\ \E c \in Channels(kresult.t) :
           Elem(kresult.t, 1, c, 0, 0) # Elem(kresult.t, 1, c, 0, 1)

\* the float kernel ran on 3 channels with 2 lanes: one vector step and a
\* scalar tail of one channel
C24_VectorStepAndTail ==
    /\ kresult.op = "cpu_avg_pool_channels_last"
    /\ kcall.sizes[2] = 3 /\ kcall.fvec_size = 2
    /\ kcall.output_height * kcall.output_width > 1
    /\ \E oh \in Rows(kresult.t), ow \in Cols(kresult.t) :
           ~KEmptyWindow(oh, ow) /\ Elem(kresult.t, 0, 2, oh, ow) # Zero

(***************************************************************************)
(* Specification SpecPipeline: the three passes run once each, in the      *)
(* order prepack, activation fusions, add fusions; an exception ends the   *)
(* sequence.  Every pass is one sweep of each of its patterns over the     *)
(* nodes of the graph.                                                     *)
(***************************************************************************)
PassOrder == <<"insertPrePackedConv2dOp", "fuseConvWithEltwise", "fuseConvAddRelu">>

\* the pass that is next in the sequence
IsNext(pass) ==
    /\ graph.op = "graph" /\ ~graph.thrown
    /\ Len(graph.passes) < Len(PassOrder)
    /\ PassOrder[Len(graph.passes) + 1] = pass

PipelinePrePack ==
    /\ IsNext("insertPrePackedConv2dOp")
    /\ PassRan("insertPrePackedConv2dOp", RewriteState(insertPrePackedConv2dOp(graph.g)))

PipelineEltwise ==
    /\ IsNext("fuseConvWithEltwise")
    /\ PassRan("fuseConvWithEltwise", fuseConvWithEltwise(graph.g))

PipelineAddRelu ==
    /\ IsNext("fuseConvAddRelu")
    /\ PassRan("fuseConvAddRelu", fuseConvAddRelu(graph.g))

NextPipeline ==
    \/ PipelinePrePack
    \/ PipelineEltwise
    \/ PipelineAddRelu

SpecPipeline == InitFusion /\ [][NextPipeline]_vars

(***************************************************************************)
(* Properties of the pass sequence (checked under SpecPipeline).           *)
(***************************************************************************)
\* the rewriters with their guards, in the order in which they are run
Registered ==
    << <<rewriter_relu, NoFilter>>, <<rewriter_sigmoid, NoFilter>>,
       <<rewriter_hardtanh, NoFilter>>, <<rewriter_elu, "filter_conv2d_elu">>,
       <<rewriter_swish, NoFilter>>, <<rewriter_silu, NoFilter>>,
       <<rewriter_add_v1, "fuse_add_filter_v1">>, <<rewriter_add_v2, "fuse_add_filter_v2">>,
       <<rewriter_add_relu, NoFilter>> >>

\* pattern i of rewriter r matches at node k of g and passes the guard
MatchesAt(g, r, i, k) ==
    LET b == matchesSubgraphFromAnchorNode(Registered[r][1][i].pattern, g, g.nodes[k])
    IN  b.ok /\ Filter(Registered[r][2], g, b) = Accept

NoGuardedMatch(g) ==
    \A r \in DOMAIN Registered : \A i \in DOMAIN Registered[r][1] : \A k \in DOMAIN g.nodes :
        ~MatchesAt(g, r, i, k)

PipelineDone == graph.op = "graph" /\ ~graph.thrown /\ graph.passes = PassOrder
PipelineEnded == graph.op = "graph" /\ (graph.thrown \/ graph.passes = PassOrder)

\* C25: on every graph the sequence prepack, activation fusions, add
\* fusions (operand order 1, then 2), add+relu fusion comes to an end: the
\* passes run are a prefix of the sequence, and while it has not ended the
\* next pass is ready to run; when it has ended without an exception no
\* registered pattern that passes its guard matches any more: no later
\* rewrite made a match for an earlier pattern
C25_SequenceEndsWithNoMatchLeft ==
    graph.op = "graph" =>
        /\ graph.passes = SubSeq(PassOrder, 1, Len(graph.passes))
        /\ ~PipelineEnded => \E k \in DOMAIN PassOrder : IsNext(PassOrder[k])
        /\ PipelineDone => NoGuardedMatch(graph.g)

\* C25 witness: the sequence has ended on conv -> add -> relu; the add
\* rewriter made the convolution_add_run that the add+relu rewriter, run
\* after it, fused
C25_LaterPassUsedEarlierRewrite ==
    /\ PipelineDone
    /\ HasTail({"add", "add_"}) /\ HasThen({"relu", "relu_"})
    /\ HasKind(graph.g, "ipex_prepack::convolution_add_relu_run")
    /\ ~HasKind(graph.g, "ipex_prepack::convolution_add_run")
    /\ \E a, b \in DOMAIN graph.log :
           /\ graph.log[a].pattern.fused = "ipex_prepack::convolution_add_run"
           /\ graph.log[b].pattern.fused = "ipex_prepack::convolution_add_relu_run"
           /\ a < b
           /\ graph.log[a].pattern.verdict = Accept /\ graph.log[b].pattern.verdict = Accept

\* the sequence has ended with an exception of a guard
C25_SequenceEndedByException ==
    /\ PipelineEnded /\ graph.thrown
    /\ Len(graph.passes) = 2

(***************************************************************************)
(* The two layouts of the shuffle kernels (checked under SpecShuffle).     *)
(***************************************************************************)
OtherLayout(fmt) == IF fmt = "Contiguous" THEN "ChannelsLast" ELSE "Contiguous"

\* the calls of pixel_shuffle and pixel_unshuffle on a valid 4-dimensional
\* tensor
Shuffles4d ==
    { k \in 1..Len(calls) :
          /\ Len(calls[k].in.sizes) = 4
          /\ \/ calls[k].op = "pixel_shuffle" /\ ValidShuffleArgs(calls[k].in, factor)
             \/ calls[k].op = "pixel_unshuffle" /\ ValidUnshuffleArgs(calls[k].in, factor) }

\* call k made on the same logical tensor held in the other layout
InOtherLayout(k) ==
    LET x == Contiguous(calls[k].in, OtherLayout(calls[k].in.fmt))
    IN  IF calls[k].op = "pixel_shuffle"
        THEN pixel_shuffle(x, factor, calls[k].grad, divTraps)
        ELSE pixel_unshuffle(x, factor, calls[k].grad, divTraps)

\* the results y and z hold the same value at every logical coordinate
SameLogicalResult(y, z) ==
    /\ y.st = "ok" /\ z.st = "ok"
    /\ y.t.sizes = z.t.sizes
    /\ Contiguous(y.t, "Contiguous").data = Contiguous(z.t, "Contiguous").data

\* C26: for every 4-dimensional tensor and valid factor the channel-last
\* shuffle and unshuffle kernels give the same logical result as the packed
\* kernels: the value at each logical coordinate (n, c, h, w) of the output
\* does not depend on the physical layout of the input
C26_LayoutsGiveSameResult ==
    \A k \in Shuffles4d : SameLogicalResult(calls[k].out, InOtherLayout(k))

\* C26 on the tensors whose channels * height * width is not 0
C26_LayoutsGiveSameResultWithPlane ==
    \A k \in Shuffles4d :
        HasPlane(calls[k].in) => SameLogicalResult(calls[k].out, InOtherLayout(k))

\* a channel-last tensor with more than one channel and more than one
\* column was shuffled by 2: its physical order differs from the packed
\* one, the logical results are the same
C26_ChannelLastShuffled ==
    \E k \in Shuffles4d :
        /\ calls[k].op = "pixel_shuffle" /\ calls[k].in.fmt = "ChannelsLast"
        /\ factor = 2 /\ calls[k].in.sizes[2] = 8 /\ calls[k].in.sizes[4] = 2
        /\ calls[k].out.st = "ok"
        /\ calls[k].out.t.data # InOtherLayout(k).t.data
        /\ SameLogicalResult(calls[k].out, InOtherLayout(k))

\* the packed kernel stopped at its division where the channel-last kernel
\* returned an empty tensor
C26_PackedStopsOnEmptyPlane ==
    \E k \in Shuffles4d :
        /\ calls[k].in.fmt = "ChannelsLast" /\ ~HasPlane(calls[k].in)
        /\ calls[k].out.st = "ok"
        /\ InOtherLayout(k).st # "ok"

(***************************************************************************)
(* The two layouts of the pooling kernels (checked under SpecPoolSums,     *)
(* where the arithmetic is exact).                                         *)
(***************************************************************************)
\* the call of the state made on the same logical tensors held in the
\* other layout
PoolInOtherLayout ==
    LET input == Contiguous(pool.input, OtherLayout(pool.input.fmt))
    IN  IF presult.op = "avg_pool2d"
        THEN avg_pool2d_out_cpu(input, pool.kernel_size, pool.stride, pool.padding,
                                pool.ceil_mode, pool.count_include_pad,
                                pool.divisor_override, pool.fvec_size, divTraps)
        ELSE avg_pool2d_backward_out_cpu(
                 Contiguous(presult.gradOutput, OtherLayout(presult.gradOutput.fmt)),
                 input, pool.kernel_size, pool.stride, pool.padding,
                 pool.ceil_mode, pool.count_include_pad,
                 pool.divisor_override, pool.fvec_size, divTraps)

\* a call was made on a 4-dimensional input (and gradient)
PoolCalled4d ==
    /\ presult.op # "none" /\ Len(pool.input.sizes) = 4
    /\ presult.op = "avg_pool2d_backward" =>
           /\ Len(presult.gradOutput.sizes) = 4
           /\ presult.gradOutput.fmt = pool.input.fmt

\* C27: for every 4-dimensional input and pooling configuration, the
\* channel-last pooling kernels, forward and backward, give in exact
\* arithmetic the same value at each logical coordinate as the packed
\* kernels (the same outcome when the call is rejected)
C27_PoolLayoutsGiveSameResult ==
    PoolCalled4d =>
        LET y == presult.out
            z == PoolInOtherLayout
        IN  /\ y.st = z.st
            /\ y.st = "ok" =>
                   /\ y.t.sizes = z.t.sizes
                   /\ Contiguous(y.t, "Contiguous").data = Contiguous(z.t, "Contiguous").data

\* C27 witness: the backward kernel ran on a channel-last gradient with
\* padding and overlapping windows; the result's physical order differs
\* from the packed one, the logical values are the same
C27_ChannelLastBackwardAgrees ==
    /\ PoolCalled4d /\ presult.op = "avg_pool2d_backward"
    /\ pool.input.fmt = "ChannelsLast" /\ presult.out.st = "ok"
    /\ CfgPadH = 1 /\ CfgDH < CfgKH
    /\ presult.out.t.data # PoolInOtherLayout.t.data
    /\ Contiguous(presult.out.t, "Contiguous").data = PoolInOtherLayout.t.data

\* the forward kernel ran on a channel-last input with the padding not
\* counted
C27_ChannelLastForwardAgrees ==
    /\ PoolCalled4d /\ presult.op = "avg_pool2d"
    /\ pool.input.fmt = "ChannelsLast" /\ presult.out.st = "ok"
    /\ CfgPadH = 1 /\ ~pool.count_include_pad /\ pool.divisor_override = <<>>
    /\ presult.out.t.data # PoolInOtherLayout.t.data
    /\ Contiguous(presult.out.t, "Contiguous").data = PoolInOtherLayout.t.data

(***************************************************************************)
(* C28: validated configurations have no empty window.                     *)
(***************************************************************************)
\* the output locations of the call of the state: those of the returned
\* tensor (forward), those of the gradient given (backward)
OutputPlane == IF presult.op = "avg_pool2d" THEN presult.out.t
               ELSE presult.gradOutput

\* pool_size of the location (oh, ow): the size of its window clipped to the
\* padded input
PaddedSize(oh, ow) ==
    (Min(oh * CfgDH - CfgPadH + CfgKH, InH + CfgPadH) - (oh * CfgDH - CfgPadH))
    * (Min(ow * CfgDW - CfgPadW + CfgKW, InW + CfgPadW) - (ow * CfgDW - CfgPadW))

\* the number of elements of the clamped window of (oh, ow)
ClampedSize(oh, ow) == (RowHi(oh) - RowLo(oh)) * (ColHi(ow) - ColLo(ow))

\* C28: whenever avg_pool2d or avg_pool2d_backward returns (the
\* configuration passed validation), the clamped window of every output
\* location is non-empty, the divisor computed without an override is at
\* least 1 under either value of count_include_pad, and no kernel, the
\* packed backward kernel included, divided by zero
C28_ValidatedWindowsNonEmpty ==
    (ForwardReturned \/ BackwardReturned) =>
        /\ ~presult.out.zdiv
        /\ \A oh \in Rows(OutputPlane), ow \in Cols(OutputPlane) :
            /\ RowLo(oh) < RowHi(oh) /\ ColLo(ow) < ColHi(ow)
            /\ ClampedSize(oh, ow) >= 1 /\ PaddedSize(oh, ow) >= 1
            /\ pool.divisor_override = <<>> => DivisorOf(oh, ow) >= 1

\* C28 witness: the packed backward kernel returned from a call in ceiling
\* mode in which the ceiling formula's last window would start beyond the
\* input and its leading padding (the output height was lowered by one) and
\* the divisor was computed from the window
C28_PackedBackwardAfterCorrection ==
    /\ BackwardReturned
    /\ pool.input.fmt = "Contiguous" /\ presult.gradOutput.fmt = "Contiguous"
    /\ pool.ceil_mode /\ pool.divisor_override = <<>>
    /\ Len(presult.gradOutput.data) > 0
    /\ div_rtn(InH + 2 * CfgPadH - CfgKH + CfgDH - 1, CfgDH) + 1
           = View4(presult.gradOutput.sizes)[3] + 1
    /\ View4(presult.gradOutput.sizes)[3] * CfgDH >= InH + CfgPadH

\* C28 witness: a forward call with padding whose windows are clipped on
\* both sides returned
C28_PaddedForwardReturned ==
    /\ ForwardReturned
    /\ CfgPadH = 1 /\ CfgPadW = 1 /\ pool.ceil_mode
    /\ \E oh \in Rows(presult.out.t) : oh * CfgDH - CfgPadH + CfgKH > InH
    /\ \E oh \in Rows(presult.out.t) : oh * CfgDH - CfgPadH < 0

(***************************************************************************)
(* C29: the operands of the prepack node and of the fusion templates.      *)
(***************************************************************************)
\* the rewriter registered for the activation `kind` (its place in Registered)
RewriterOf(kind) ==
    CASE kind \in {"aten::relu", "aten::relu_"} -> 1
      [] kind \in {"aten::sigmoid", "aten::sigmoid_"} -> 2
      [] kind \in {"aten::hardtanh", "aten::hardtanh_"} -> 3
      [] kind \in {"aten::elu", "aten::elu_"} -> 4
      [] kind \in {"aten::silu", "aten::silu_"} -> 6
      [] OTHER -> 0

RegisteredActivations ==
    {"relu", "relu_", "sigmoid", "sigmoid_", "hardtanh", "hardtanh_", "elu", "elu_",
     "silu", "silu_"}

\* the prepack pass alone has run on an aten::conv2d of known shapes
Conv2dPrepacked ==
    /\ graph.op = "graph" /\ graph.passes = <<"insertPrePackedConv2dOp">>
    /\ OrigConv.kind = "aten::conv2d" /\ ShapesKnown

\* C29: after the prepack pass on an aten::conv2d node (input, weight, bias,
\* stride, padding, dilation, groups) of known shapes, the graph has one
\* convolution_prepack node whose operands are, in order, weight, bias,
\* stride, padding, dilation, kernel_size, groups, output_channel,
\* weight_is_channels_last, weight_is_prepacked, input_size, and one
\* convolution_run(input, packed_weight) node that every consumer of the
\* convolution's output now consumes; when the output's only consumer is a
\* registered activation, the fusion pattern of that activation matches at
\* it, binding its parameters to these operands in this order
C29_PrepackOperandsInTemplateOrder ==
    Conv2dPrepacked =>
        LET w == NodeOf(graph.orig, Built.weight).sizes[1]
        IN
        /\ Cardinality(NodesOfKind(graph.g, "ipex_prepack::convolution_prepack")) = 1
        /\ Cardinality(NodesOfKind(graph.g, "ipex_prepack::convolution_run")) = 1
        /\ Built.conv \notin Ids(graph.g)
        /\ \A p \in NodesOfKind(graph.g, "ipex_prepack::convolution_prepack"),
              r \in NodesOfKind(graph.g, "ipex_prepack::convolution_run") :
            LET const == [j \in {6, 8, 9, 10, 11} |-> NodeOf(graph.g, p.inputs[j]).const]
            IN
            /\ Len(p.inputs) = 11
            /\ SubSeq(p.inputs, 1, 5) = SubSeq(OrigConv.inputs, 2, 6)
            /\ const[6] = IntListConst(<<w[3], w[4]>>)
            /\ p.inputs[7] = OrigConv.inputs[7]
            /\ const[8] = IntConst(w[1])
            /\ const[9] = BoolConst(FALSE) /\ const[10] = BoolConst(FALSE)
            /\ IndexOf(graph.g, p.inputs[10]) < IndexOf(graph.g, p.inputs[9])
            /\ const[11] = IntListConst(NodeOf(graph.orig, Built.input).sizes[1])
            /\ r.inputs = <<OrigConv.inputs[1], p.id>>
            /\ graph.g.outputs = Substitute(graph.orig.outputs, Built.conv, r.id)
            /\ \A k \in DOMAIN graph.orig.nodes :
                   LET n == graph.orig.nodes[k]
                   IN  n.id # Built.conv =>
                           /\ n.id \in Ids(graph.g)
                           /\ NodeOf(graph.g, n.id).inputs
                                  = Substitute(n.inputs, Built.conv, r.id)
            /\ (ConvUsedOnce /\ HasTail(RegisteredActivations)) =>
                   \E i \in 1..2 :
                       LET pat == Registered[RewriterOf(OrigTail.kind)][1][i].pattern
                           b == matchesSubgraphFromAnchorNode(
                                    pat, graph.g, NodeOf(graph.g, Built.tail))
                       IN  /\ b.ok
                           /\ pat.nodes[1].kind = "ipex_prepack::convolution_prepack"
                           /\ \A j \in 1..11 : b.map[pat.nodes[1].inputs[j]] = p.inputs[j]
                           /\ b.map["input"] = OrigConv.inputs[1]
                           /\ b.map["x"] = r.id

\* C29 witness: the prepack pass ran on an aten::conv2d of known shapes
\* whose output only a hardtanh consumes, and the convolution_run node it
\* made is the hardtanh's first operand
C29_PrepackedBeforeHardtanh ==
    /\ Conv2dPrepacked
    /\ ConvUsedOnce /\ HasTail({"hardtanh"})
    /\ \E r \in NodesOfKind(graph.g, "ipex_prepack::convolution_run") :
           NodeOf(graph.g, Built.tail).inputs[1] = r.id

\* C29 witness: the prepacked convolution's output is also returned by the
\* graph, and the graph returns the convolution_run node's output
C29_RunTakesOverReturn ==
    /\ Conv2dPrepacked
    /\ Built.conv \in Range(graph.orig.outputs)
    /\ \E r \in NodesOfKind(graph.g, "ipex_prepack::convolution_run") :
           r.id \in Range(graph.g.outputs)

(***************************************************************************)
(* C30: conv -> sigmoid -> mul becomes convolution_swish_run.              *)
(***************************************************************************)
\* the graph given is x = conv(...), y = sigmoid(x), mul(x, y), with known
\* shapes: x is consumed by the sigmoid and by the mul only
SigmoidThenMul ==
    /\ graph.op = "graph" /\ ShapesKnown
    /\ HasTail({"sigmoid", "sigmoid_"}) /\ HasThen({"mul", "mul_"})
    /\ NodeOf(graph.orig, Built.then).inputs = <<Built.conv, Built.tail>>
    /\ Uses(graph.orig, Built.conv) = 2 /\ Uses(graph.orig, Built.tail) = 1

\* C30: on x = prepacked convolution, y = sigmoid(x), mul(x, y): before the
\* activation fusion pass the conv+sigmoid pattern does not match at the
\* sigmoid (x has a second consumer, the mul); after the pass the graph has
\* one convolution_swish_run node on the convolution's input and packed
\* weight, consumed where the mul was, and no convolution_sigmoid_run,
\* sigmoid, mul or convolution_run node; the pass judged one match, that of
\* the conv+sigmoid+mul pattern at the mul, although the conv+sigmoid
\* rewriter ran before the conv+sigmoid+mul rewriter
C30_SigmoidMulBecomesSwish ==
    SigmoidThenMul =>
        /\ graph.passes = <<"insertPrePackedConv2dOp">> =>
               /\ \A r \in NodesOfKind(graph.g, "ipex_prepack::convolution_run") :
                      Uses(graph.g, r.id) = 2
               /\ \A i \in DOMAIN rewriter_sigmoid : \A k \in DOMAIN graph.g.nodes :
                      ~matchesSubgraphFromAnchorNode(
                           rewriter_sigmoid[i].pattern, graph.g, graph.g.nodes[k]).ok
        /\ (Len(graph.passes) >= 2
            /\ SubSeq(graph.passes, 1, 2) = <<"insertPrePackedConv2dOp", "fuseConvWithEltwise">>) =>
               /\ ~graph.thrown
               /\ Cardinality(NodesOfKind(graph.g, "ipex_prepack::convolution_swish_run")) = 1
               /\ \A n \in NodesOfKind(graph.g, "ipex_prepack::convolution_swish_run") :
                      /\ Len(n.inputs) = 2 /\ RunsPacked(n, 2)
                      /\ graph.g.outputs = Substitute(graph.orig.outputs, Built.then, n.id)
               /\ ~HasKind(graph.g, "ipex_prepack::convolution_sigmoid_run")
               /\ ~HasKind(graph.g, "ipex_prepack::convolution_run")
               /\ ~HasKind(graph.g, "aten::mul") /\ ~HasKind(graph.g, "aten::mul_")
               /\ ~HasKind(graph.g, "aten::sigmoid") /\ ~HasKind(graph.g, "aten::sigmoid_")
               /\ Len(graph.log) = 1
               /\ Judged(1, {NoFilter}, "ipex_prepack::convolution_swish_run", Accept)
               /\ graph.log[1].pattern.anchor = Built.then /\ graph.log[1].pass = 2

\* C30 witness: the activation fusion pass ran on the prepacked
\* conv -> sigmoid_ -> mul(x, y) and left a convolution_swish_run node
C30_SwishFusedAfterSigmoidRejected ==
    /\ SigmoidThenMul /\ HasTail({"sigmoid_"})
    /\ graph.passes = <<"insertPrePackedConv2dOp", "fuseConvWithEltwise">>
    /\ HasKind(graph.g, "ipex_prepack::convolution_swish_run")
    /\ Built.then \notin Ids(graph.g) /\ Built.tail \notin Ids(graph.g)

\* C30 witness: with the operands of the mul in the other order, mul(y, x),
\* neither pattern matches and sigmoid and mul are left on convolution_run
C30_ExchangedMulLeft ==
    /\ graph.op = "graph" /\ ShapesKnown
    /\ HasTail({"sigmoid"}) /\ HasThen({"mul"})
    /\ NodeOf(graph.orig, Built.then).inputs = <<Built.tail, Built.conv>>
    /\ graph.passes = <<"insertPrePackedConv2dOp", "fuseConvWithEltwise">>
    /\ HasKind(graph.g, "ipex_prepack::convolution_run")
    /\ HasKind(graph.g, "aten::sigmoid") /\ HasKind(graph.g, "aten::mul")
    /\ graph.log = <<>>

=============================================================================
